---- MODULE Spec2Model ----
(***************************************************************************)
(* paperterm: the artwork rotation cursor and the e-ink reduction          *)
(* (src/src/artwork.py), the weather fetch (src/src/weather.py), the       *)
(* dashboard compositor (src/src/render.py), the calendar grid             *)
(* (src/src/calendar_render.py) and the block digits                       *)
(* (src/src/ascii_digits.py).                                              *)
(*                                                                         *)
(* Text is modelled as a sequence of one-character strings, so that the    *)
(* state-file parser and formatter are computed character by character.    *)
(***************************************************************************)
EXTENDS Integers, Sequences, FiniteSets, TLC

VARIABLES
    stateFile,    \* the rotation state file: [exists, content]
    artworkDir,   \* the artwork directory: [exists, entries]
    call,         \* arguments and environment outcomes of the last select_artwork call
    mem,          \* select_artwork's locals (current_index, call_count) at its return
    ret,          \* what the last select_artwork call returned
    tracking,     \* history: the run so far is the clean-start scenario
    hist,         \* history: (picked index, written count) of each call of that run
    layout,       \* the layout constants of render.py in effect
    rpc,          \* position of the renderer: init, ready, fetched, ..., done, raised
    config,       \* DashboardRenderer.config
    fonts,        \* DashboardRenderer.fonts
    weather,      \* render's local: what fetch_weather gave
    reminders,    \* render's local: what _load_reminders gave
    drawn,        \* the zones drawn on the canvas so far, in order
    saved,        \* number of times the canvas was written to the output file
    outcome,      \* how render ended: returned True, or raised
    op,           \* the last direct call of a library function: its name and arguments
    out,          \* what that call returned or drew
    race          \* two concurrent select_artwork invocations on one state file

rotVars == <<stateFile, artworkDir, call, mem, ret, tracking, hist, race>>

renderVars == <<layout, rpc, config, fonts, weather, reminders, drawn, saved, outcome>>

callVars == <<op, out>>

vars == <<stateFile, artworkDir, call, mem, ret, tracking, hist,
          layout, rpc, config, fonts, weather, reminders, drawn, saved, outcome,
          op, out, race>>

\* no library function has been called directly yet; each run calls one
NoOp == [name |-> "none"]

----------------------------------------------------------------------------
(* Bounds of the model *)

\* most comma-separated fields of the state file drawn for the initial state
MaxFields == 2

\* number of calls the clean-start history follows
MaxCalls == 4

\* rotation_interval arguments range over MinInterval..MaxInterval
MaxInterval == 3

----------------------------------------------------------------------------
(* Text helpers: str.strip, str.split, int(), and the f-string formatting  *)
(* of an int.                                                              *)

Digits == <<"0", "1", "2", "3", "4", "5", "6", "7", "8", "9">>

IsDigit(c) == \E i \in 1..10 : Digits[i] = c

DigitVal(c) == (CHOOSE i \in 1..10 : Digits[i] = c) - 1

IsSpace(c) == c \in {" ", "\n"}

RECURSIVE LStrip(_)
LStrip(s) == IF s # <<>> /\ IsSpace(Head(s)) THEN LStrip(Tail(s)) ELSE s

RECURSIVE RStrip(_)
RStrip(s) ==
    IF s # <<>> /\ IsSpace(s[Len(s)]) THEN RStrip(SubSeq(s, 1, Len(s) - 1)) ELSE s

\* str.strip()
Strip(s) == RStrip(LStrip(s))

\* str.split(sep): always at least one field; the fields may be empty
RECURSIVE Split(_, _)
Split(s, sep) ==
    IF \E i \in 1..Len(s) : s[i] = sep
    THEN LET i == CHOOSE k \in 1..Len(s) :
                      s[k] = sep /\ \A j \in 1..(k - 1) : s[j] # sep
         IN  <<SubSeq(s, 1, i - 1)>> \o Split(SubSeq(s, i + 1, Len(s)), sep)
    ELSE <<s>>

RECURSIVE DigitsValue(_, _)
DigitsValue(s, acc) ==
    IF s = <<>> THEN acc ELSE DigitsValue(Tail(s), acc * 10 + DigitVal(Head(s)))

\* the digits of an int() argument: surrounding whitespace and one sign removed
IntBody(s) ==
    LET t == Strip(s)
    IN  IF t # <<>> /\ Head(t) \in {"-", "+"} THEN Tail(t) ELSE t

\* int(s) does not raise ValueError
IntOk(s) == IntBody(s) # <<>> /\ \A i \in 1..Len(IntBody(s)) : IsDigit(IntBody(s)[i])

\* int(s), where IntOk(s)
IntVal(s) ==
    LET t == Strip(s)
        v == DigitsValue(IntBody(s), 0)
    IN  IF t # <<>> /\ Head(t) = "-" THEN 0 - v ELSE v

RECURSIVE NatToStr(_)
NatToStr(n) ==
    IF n < 10 THEN <<Digits[n + 1]>>
    ELSE NatToStr(n \div 10) \o <<Digits[(n % 10) + 1]>>

\* f"{n}" of an int
IntToStr(n) == IF n < 0 THEN <<"-">> \o NatToStr(0 - n) ELSE NatToStr(n)

----------------------------------------------------------------------------
(* The artwork directory and get_artwork_files *)

\* the files the directory may hold: category subdirectory ("" is the root),
\* name stem and suffix.  Root names start with a digit and so sort before
\* the subdirectories; stems are in name order.
ArtworkUniverse ==
    { [cat |-> "",      stem |-> 1, suffix |-> ".png"],
      [cat |-> "",      stem |-> 2, suffix |-> ".txt"],
      [cat |-> "art",   stem |-> 3, suffix |-> ".JPG"],
      [cat |-> "art",   stem |-> 4, suffix |-> ".gif"],
      [cat |-> "photo", stem |-> 5, suffix |-> ".jpeg"],
      [cat |-> "photo", stem |-> 6, suffix |-> ".bmp"] }

Stems(S) == {e \in ArtworkUniverse : e.stem \in S}

NoDirectory == [exists |-> FALSE, entries |-> {}]

DirStates ==
    {NoDirectory} \cup
    { [exists |-> TRUE, entries |-> Stems(S)] :
        S \in { {2}, {1, 2}, {3, 4}, {1, 2, 3, 4, 5, 6} } }

CategoryArgs == { <<>>, <<"photo", "art">> }

\* str.lower() of a suffix
Lower(suffix) ==
    CASE suffix = ".JPG" -> ".jpg"
      [] suffix = ".PNG" -> ".png"
      [] OTHER -> suffix

extensions == {".png", ".jpg", ".jpeg", ".gif", ".bmp"}

IsImage(e) == Lower(e.suffix) \in extensions

\* sorted(files): ascending path order
RECURSIVE SortedFiles(_)
SortedFiles(S) ==
    IF S = {} THEN <<>>
    ELSE LET first == CHOOSE e \in S : \A o \in S : e.stem <= o.stem
         IN  <<first>> \o SortedFiles(S \ {first})

\* mutant: the suffix filter is dropped
get_artwork_files_unfiltered(dir, categories) ==
    IF ~dir.exists THEN <<>>
    ELSE IF categories # <<>>
         THEN SortedFiles({e \in dir.entries :
                             \E i \in 1..Len(categories) : categories[i] = e.cat})
         ELSE SortedFiles(dir.entries)

get_artwork_files(dir, categories) ==
    IF ~dir.exists THEN <<>>
    ELSE IF categories # <<>>
         THEN SortedFiles({e \in dir.entries :
                             /\ \E i \in 1..Len(categories) : categories[i] = e.cat
                             /\ IsImage(e)})
         ELSE SortedFiles({e \in dir.entries : IsImage(e)})

----------------------------------------------------------------------------
(* select_artwork *)

Missing == [exists |-> FALSE, content |-> <<>>]

DefaultCursor == [index |-> 0, count |-> 0]

\* the body of the try block that reads the record
ParseState(content) ==
    LET parts == Split(Strip(content), ",")
    IN  IF ~IntOk(parts[1]) THEN DefaultCursor
        ELSE IF Len(parts) > 1
             THEN IF IntOk(parts[2])
                  THEN [index |-> IntVal(parts[1]), count |-> IntVal(parts[2])]
                  ELSE [index |-> IntVal(parts[1]), count |-> 0]
             ELSE [index |-> IntVal(parts[1]), count |-> 0]

\* "Load or initialize state"
LoadState(file, io) ==
    IF ~io.state_file THEN DefaultCursor
    ELSE IF ~file.exists THEN DefaultCursor
    ELSE IF io.read # "ok" THEN DefaultCursor
    ELSE ParseState(file.content)

\* mutant: the rotation forgets to reset call_count
AdvanceNoReset(cur, rotation_interval, n) ==
    LET call_count == cur.count + 1
    IN  IF call_count >= rotation_interval
        THEN [index |-> (cur.index + 1) % n, count |-> call_count]
        ELSE [index |-> cur.index, count |-> call_count]

\* mutant: the rotation skips an item
AdvanceSkipping(cur, rotation_interval, n) ==
    LET call_count == cur.count + 1
    IN  IF call_count >= rotation_interval
        THEN [index |-> (cur.index + 2) % n, count |-> 0]
        ELSE [index |-> cur.index, count |-> call_count]

\* "Increment call count and potentially rotate"
Advance(cur, rotation_interval, n) ==
    LET call_count == cur.count + 1
    IN  IF call_count >= rotation_interval
        THEN [index |-> (cur.index + 1) % n, count |-> 0]
        ELSE [index |-> cur.index, count |-> call_count]

\* mutant: the record is written with another separator
FormatStateSemicolon(cur) == IntToStr(cur.index) \o <<";">> \o IntToStr(cur.count)

\* f"{current_index},{call_count}"
FormatState(cur) == IntToStr(cur.index) \o <<",">> \o IntToStr(cur.count)

\* "Save state": open(state_file, 'w') truncates, then the record is written;
\* an IOError of either step is swallowed
SaveState(file, cur, io) ==
    IF ~io.state_file THEN file
    ELSE CASE io.write = "ok"          -> [exists |-> TRUE, content |-> FormatState(cur)]
           [] io.write = "open_fails"  -> file
           [] io.write = "write_fails" -> [exists |-> TRUE, content |-> <<>>]

\* files[current_index % len(files)], as a 0-based index
PickIndex(cur, n) == cur.index % n

NoSelection == [item |-> <<>>, index |-> 0, raised |-> FALSE]

\* the value select_artwork returns
Selection(files, cur) ==
    [item   |-> <<files[PickIndex(cur, Len(files)) + 1]>>,
     index  |-> PickIndex(cur, Len(files)),
     raised |-> FALSE]

\* mutant: the IOError of a failed write is not caught
SelectResultUncaught(file, files, rotation_interval, io) ==
    IF files = <<>>
    THEN [file |-> file, mem |-> DefaultCursor, ret |-> NoSelection]
    ELSE LET cur == Advance(LoadState(file, io), rotation_interval, Len(files))
         IN  [file |-> SaveState(file, cur, io), mem |-> cur,
              ret |-> IF io.state_file /\ io.write # "ok"
                      THEN [item |-> <<>>, index |-> 0, raised |-> TRUE]
                      ELSE Selection(files, cur)]

\* mutant: the record is loaded and written back before the collection is
\* looked at
SelectResultSavesFirst(file, files, rotation_interval, io) ==
    IF files = <<>>
    THEN [file |-> SaveState(file, LoadState(file, io), io), mem |-> DefaultCursor,
          ret |-> NoSelection]
    ELSE LET cur == Advance(LoadState(file, io), rotation_interval, Len(files))
         IN  [file |-> SaveState(file, cur, io), mem |-> cur, ret |-> Selection(files, cur)]

\* what one whole call does to (state file, locals, return value)
SelectResult(file, files, rotation_interval, io) ==
    IF files = <<>>
    THEN [file |-> file, mem |-> DefaultCursor, ret |-> NoSelection]
    ELSE LET cur == Advance(LoadState(file, io), rotation_interval, Len(files))
         IN  [file |-> SaveState(file, cur, io), mem |-> cur, ret |-> Selection(files, cur)]

\* the state_file argument (given or None) and the outcome of the file
\* operations: at most one of them fails in a call
IOOutcomes ==
    { [state_file |-> FALSE, read |-> "ok",      write |-> "ok"],
      [state_file |-> TRUE,  read |-> "ok",      write |-> "ok"],
      [state_file |-> TRUE,  read |-> "ioerror", write |-> "ok"],
      [state_file |-> TRUE,  read |-> "ok",      write |-> "open_fails"],
      [state_file |-> TRUE,  read |-> "ok",      write |-> "write_fails"] }

MinInterval == 0 - 1

Intervals == MinInterval..MaxInterval

NoCall == [made |-> FALSE, categories |-> <<>>, rotation_interval |-> 1,
           io |-> [state_file |-> FALSE, read |-> "ok", write |-> "ok"],
           files |-> <<>>]

\* the clean-start scenario: interval 3, five items, a working state file
OnScript(files, rotation_interval, io) ==
    /\ tracking
    /\ Len(hist) < MaxCalls
    /\ rotation_interval = 3
    /\ Len(files) = 5
    /\ io = [state_file |-> TRUE, read |-> "ok", write |-> "ok"]

SelectArtwork(categories, rotation_interval, io) ==
    LET files == get_artwork_files(artworkDir, categories)
        res   == SelectResult(stateFile, files, rotation_interval, io)
    IN  /\ call' = [made |-> TRUE, categories |-> categories,
                    rotation_interval |-> rotation_interval, io |-> io,
                    files |-> files]
        /\ stateFile' = res.file
        /\ mem' = res.mem
        /\ ret' = res.ret
        /\ IF OnScript(files, rotation_interval, io)
           THEN /\ tracking' = TRUE
                /\ hist' = Append(hist, [index |-> res.ret.index,
                                         count |-> res.mem.count])
           ELSE /\ tracking' = FALSE
                /\ hist' = <<>>
        /\ UNCHANGED artworkDir

\* between two renders the owner adds or removes artwork; the finished
\* call's locals and return value are gone by then
ChangeArtwork ==
    /\ \E d \in DirStates : d # artworkDir /\ artworkDir' = d
    /\ call' = NoCall
    /\ mem' = DefaultCursor
    /\ ret' = NoSelection
    /\ tracking' = FALSE
    /\ hist' = <<>>
    /\ UNCHANGED stateFile

\* one of a series of calls with the same arguments, a working state file and
\* an unchanged directory: load, advance, save, pick; hist keeps the
\* (index selected, call_count written) of the last n * rotation_interval calls
RepeatedSelect ==
    /\ get_artwork_files(artworkDir, <<>>) # <<>>
    /\ call' = [made |-> TRUE, categories |-> <<>>,
                rotation_interval |-> call.rotation_interval,
                io |-> [state_file |-> TRUE, read |-> "ok", write |-> "ok"],
                files |-> get_artwork_files(artworkDir, <<>>)]
    /\ mem' = Advance(LoadState(stateFile, call'.io), call'.rotation_interval,
                      Len(call'.files))
    /\ stateFile' = SaveState(stateFile, mem', call'.io)
    /\ ret' = Selection(call'.files, mem')
    /\ hist' = IF Len(hist) < Len(call'.files) * call'.rotation_interval
               THEN Append(hist, [index |-> ret'.index, count |-> mem'.count])
               ELSE Append(Tail(hist), [index |-> ret'.index, count |-> mem'.count])
    /\ UNCHANGED <<artworkDir, tracking, race, renderVars, callVars>>

\* the fields a state file is made of in the initial state: empty, a number,
\* a negative number, a padded number, and text that is no number
Fields == { <<>>, <<"2">>, <<"-", "2">>, <<" ", "2", " ">>, <<"x">> }

RECURSIVE JoinFields(_)
JoinFields(fs) ==
    IF Len(fs) = 1 THEN fs[1] ELSE fs[1] \o <<",">> \o JoinFields(Tail(fs))

\* the initial contents: every join of these fields, and a record with a
\* two-digit index
Contents ==
    { JoinFields(fs) : fs \in UNION { [1..k -> Fields] : k \in 1..MaxFields } }
        \cup { <<"1", "2", ",", "0">> }

----------------------------------------------------------------------------
(* fetch_weather (weather.py).  A JSON value is a tagged record; numbers   *)
(* are kept in tenths so that round() is computed, and a timestamp string  *)
(* is kept by its hour (an hour of -1 is text datetime.fromisoformat       *)
(* rejects).                                                               *)

JNum(tenths) == [t |-> "num", n |-> tenths]

JStr(hour) == [t |-> "str", n |-> hour]

JNull == [t |-> "null", n |-> 0]

JAbsent == [t |-> "absent", n |-> 0]

JList(items) == [t |-> "list", items |-> items]

JNullList == [t |-> "null", items |-> <<>>]

JAbsentList == [t |-> "absent", items |-> <<>>]

\* dict.get(key, default): the default only when the key is absent
Get(v, default) == IF v.t = "absent" THEN default ELSE v

\* round(x) of a number given in tenths: half to even
Round(tenths) ==
    LET q == tenths \div 10
        r == tenths % 10
    IN  IF r < 5 THEN q
        ELSE IF r > 5 THEN q + 1
        ELSE IF q % 2 = 0 THEN q ELSE q + 1

CodeTable ==
    << <<0, "Clear">>, <<1, "Mainly Clear">>, <<2, "Partly Cloudy">>, <<3, "Overcast">>,
       <<45, "Foggy">>, <<48, "Fog">>, <<51, "Light Drizzle">>, <<53, "Drizzle">>,
       <<55, "Dense Drizzle">>, <<61, "Slight Rain">>, <<63, "Rain">>, <<65, "Heavy Rain">>,
       <<71, "Slight Snow">>, <<73, "Snow">>, <<75, "Heavy Snow">>, <<77, "Snow Grains">>,
       <<80, "Slight Showers">>, <<81, "Showers">>, <<82, "Violent Showers">>,
       <<85, "Snow Showers">>, <<86, "Heavy Snow Showers">>, <<95, "Thunderstorm">>,
       <<96, "Thunderstorm w/ Hail">>, <<99, "Severe Thunderstorm">> >>

\* WEATHER_CODES.get(code, ("Unknown", "?"))[0], for a hashable code
WEATHER_CODES(code) ==
    IF code.t = "num" /\ \E i \in 1..Len(CodeTable) : CodeTable[i][1] * 10 = code.n
    THEN CodeTable[CHOOSE i \in 1..Len(CodeTable) : CodeTable[i][1] * 10 = code.n][2]
    ELSE "Unknown"

Hashable(v) == v.t \notin {"list", "obj"}

GoodCurrent ==
    [t |-> "obj", temperature_2m |-> JNum(715), relative_humidity_2m |-> JNum(400),
     weather_code |-> JNum(30), wind_speed_10m |-> JNum(65)]

\* the "current" member of a response body
Currents ==
    { GoodCurrent,
      [GoodCurrent EXCEPT !.weather_code = JNum(420)],
      [GoodCurrent EXCEPT !.temperature_2m = JNull],
      [GoodCurrent EXCEPT !.temperature_2m = JAbsent, !.weather_code = JAbsent],
      [GoodCurrent EXCEPT !.t = "null"],
      [GoodCurrent EXCEPT !.t = "absent"] }

GoodHourly ==
    [t |-> "obj",
     time           |-> JList(<<JStr(9), JStr(10)>>),
     temperature_2m |-> JList(<<JNum(700), JNum(725)>>),
     weather_code   |-> JList(<<JNum(30), JNum(610)>>)]

\* the "hourly" member of a response body
Hourlies ==
    { GoodHourly,
      [GoodHourly EXCEPT !.time = JList(<<JStr(9)>>),
                         !.temperature_2m = JList(<<JNum(700)>>),
                         !.weather_code = JList(<<JNum(30)>>)],
      [GoodHourly EXCEPT !.time = JList(<<JStr(0 - 1), JStr(10)>>)],
      [GoodHourly EXCEPT !.temperature_2m = JList(<<JNum(700), JNull>>)],
      [GoodHourly EXCEPT !.time = JNullList],
      [GoodHourly EXCEPT !.time = JAbsentList, !.temperature_2m = JAbsentList,
                         !.weather_code = JAbsentList],
      [GoodHourly EXCEPT !.t = "null"],
      [GoodHourly EXCEPT !.t = "absent"] }

\* what urlopen() and json.loads() give: a failure, or a decoded body
Responses ==
    { [kind |-> k, data |-> [t |-> "null", current |-> GoodCurrent, hourly |-> GoodHourly]] :
        k \in {"network_error", "http_error", "not_json"} }
    \cup { [kind |-> "json", data |-> [t |-> tt, current |-> GoodCurrent, hourly |-> GoodHourly]] :
             tt \in {"null", "list"} }
    \cup { [kind |-> "json", data |-> [t |-> "obj", current |-> c, hourly |-> h]] :
             c \in Currents, h \in Hourlies }

NoWeatherValue ==
    [current |-> [temperature |-> 0, wind_speed |-> 0, description |-> ""],
     unit |-> "", hourly |-> <<>>, has_high_low |-> FALSE, high |-> 0, low |-> 0]

ReturnNone == [status |-> "none", error |-> "", value |-> NoWeatherValue]

Raise(error) == [status |-> "raised", error |-> error, value |-> NoWeatherValue]

Return(value) == [status |-> "ok", error |-> "", value |-> value]

Min(a, b) == IF a <= b THEN a ELSE b

Max(a, b) == IF a >= b THEN a ELSE b

\* seq[:k]
Prefix(seq, k) ==
    IF k >= 0 THEN SubSeq(seq, 1, Min(k, Len(seq)))
    ELSE SubSeq(seq, 1, Max(Len(seq) + k, 0))

\* the number of passes of the hourly loop that reach the loop body
LoopPasses(times, temps, codes, forecast_hours) ==
    Min(Min(Len(times), Min(Len(temps), Len(codes))), Max(forecast_hours, 0))

\* the exception the body of the hourly loop raises for one entry ("" if none)
HourError(time_str, temp, code) ==
    IF time_str.t # "str" THEN "TypeError"
    ELSE IF time_str.n < 0 THEN "ValueError"
    ELSE IF ~Hashable(code) THEN "TypeError"
    ELSE IF temp.t # "num" THEN "TypeError"
    ELSE ""

HourEntry(time_str, temp, code) ==
    [hour |-> time_str.n, temperature |-> Round(temp.n), description |-> WEATHER_CODES(code)]

RECURSIVE SeqMax(_)
SeqMax(seq) == IF Len(seq) = 1 THEN seq[1] ELSE Max(seq[1], SeqMax(Tail(seq)))

RECURSIVE SeqMin(_)
SeqMin(seq) == IF Len(seq) = 1 THEN seq[1] ELSE Min(seq[1], SeqMin(Tail(seq)))

\* "Calculate high/low for the forecast period", on a result built so far
HighLow(result, temps, forecast_hours) ==
    IF temps = <<>> THEN Return(result)
    ELSE LET period == Prefix(temps, forecast_hours)
         IN  IF period = <<>> THEN Raise("ValueError")
             ELSE IF \E i \in 1..Len(period) : period[i].t # "num" THEN Raise("TypeError")
             ELSE LET tenths == [i \in 1..Len(period) |-> period[i].n]
                  IN  Return([result EXCEPT !.has_high_low = TRUE,
                                            !.high = Round(SeqMax(tenths)),
                                            !.low = Round(SeqMin(tenths))])

\* the part of fetch_weather after the try block
ParseWeather(data, unit, forecast_hours) ==
    IF data.t # "obj" THEN Raise("AttributeError")
    ELSE
    LET current == Get(data.current, [GoodCurrent EXCEPT !.temperature_2m = JAbsent,
                                        !.relative_humidity_2m = JAbsent,
                                        !.weather_code = JAbsent,
                                        !.wind_speed_10m = JAbsent])
    IN
    IF current.t # "obj" THEN Raise("AttributeError")
    ELSE
    LET weather_code == Get(current.weather_code, JNum(0))
        temperature  == Get(current.temperature_2m, JNum(0))
        wind_speed   == Get(current.wind_speed_10m, JNum(0))
    IN
    IF ~Hashable(weather_code) THEN Raise("TypeError")
    ELSE IF temperature.t # "num" \/ wind_speed.t # "num" THEN Raise("TypeError")
    ELSE
    LET hourly == Get(data.hourly, [GoodHourly EXCEPT !.time = JAbsentList,
                                      !.temperature_2m = JAbsentList,
                                      !.weather_code = JAbsentList])
    IN
    IF hourly.t # "obj" THEN Raise("AttributeError")
    ELSE
    LET times == Get(hourly.time, JList(<<>>))
        temps == Get(hourly.temperature_2m, JList(<<>>))
        codes == Get(hourly.weather_code, JList(<<>>))
    IN
    IF times.t # "list" \/ temps.t # "list" \/ codes.t # "list" THEN Raise("TypeError")
    ELSE
    LET passes == LoopPasses(times.items, temps.items, codes.items, forecast_hours)
        errs   == [i \in 1..passes |->
                     HourError(times.items[i], temps.items[i], codes.items[i])]
        result == [current |-> [temperature |-> Round(temperature.n),
                                wind_speed  |-> Round(wind_speed.n),
                                description |-> WEATHER_CODES(weather_code)],
                   unit |-> IF unit = "fahrenheit" THEN "F" ELSE "C",
                   hourly |-> [i \in 1..passes |->
                                 HourEntry(times.items[i], temps.items[i], codes.items[i])],
                   has_high_low |-> FALSE, high |-> 0, low |-> 0]
    IN
    IF \E i \in 1..passes : errs[i] # ""
    THEN Raise(errs[CHOOSE i \in 1..passes : errs[i] # "" /\ \A j \in 1..(i - 1) : errs[j] = ""])
    ELSE HighLow(result, temps.items, forecast_hours)

fetch_weather(response, unit, forecast_hours) ==
    IF response.kind # "json" THEN ReturnNone
    ELSE ParseWeather(response.data, unit, forecast_hours)

----------------------------------------------------------------------------
(* The compositor (render.py): layout constants and zone rectangles *)

WIDTH == 1236

HEIGHT == 1648

MARGIN == 30

TIME_ZONE_HEIGHT == 320

MIDDLE_ZONE_HEIGHT == 1048

REMINDERS_ZONE_HEIGHT == 220

WEATHER_ZONE_WIDTH == 350

\* the module-level constants; CALENDAR_ZONE_WIDTH is derived from the others
SourceLayout ==
    [WIDTH |-> WIDTH, HEIGHT |-> HEIGHT, MARGIN |-> MARGIN,
     TIME_ZONE_HEIGHT |-> TIME_ZONE_HEIGHT,
     MIDDLE_ZONE_HEIGHT |-> MIDDLE_ZONE_HEIGHT,
     REMINDERS_ZONE_HEIGHT |-> REMINDERS_ZONE_HEIGHT,
     WEATHER_ZONE_WIDTH |-> WEATHER_ZONE_WIDTH]

CALENDAR_ZONE_WIDTH(lay) == lay.WIDTH - (2 * lay.MARGIN) - lay.WEATHER_ZONE_WIDTH

\* render_time_zone: "Zone coordinates"
TimeZone(lay) ==
    [x |-> lay.MARGIN, y |-> lay.MARGIN,
     width |-> lay.WIDTH - (2 * lay.MARGIN), height |-> lay.TIME_ZONE_HEIGHT]

\* render_weather_zone_wrapper: "Zone coordinates"
WeatherZone(lay) ==
    [x |-> lay.MARGIN, y |-> lay.MARGIN + lay.TIME_ZONE_HEIGHT,
     width |-> lay.WEATHER_ZONE_WIDTH, height |-> lay.MIDDLE_ZONE_HEIGHT]

\* mutant: the calendar zone is not moved right of the weather zone
CalendarZoneAtMargin(lay) ==
    [x |-> lay.MARGIN, y |-> lay.MARGIN + lay.TIME_ZONE_HEIGHT,
     width |-> CALENDAR_ZONE_WIDTH(lay), height |-> lay.MIDDLE_ZONE_HEIGHT]

\* render_calendar_zone: "Zone coordinates (right of weather zone)"
CalendarZone(lay) ==
    [x |-> lay.MARGIN + lay.WEATHER_ZONE_WIDTH, y |-> lay.MARGIN + lay.TIME_ZONE_HEIGHT,
     width |-> CALENDAR_ZONE_WIDTH(lay), height |-> lay.MIDDLE_ZONE_HEIGHT]

\* render_reminders_zone: "Zone coordinates"
RemindersZone(lay) ==
    [x |-> lay.MARGIN, y |-> lay.MARGIN + lay.TIME_ZONE_HEIGHT + lay.MIDDLE_ZONE_HEIGHT,
     width |-> lay.WIDTH - (2 * lay.MARGIN), height |-> lay.REMINDERS_ZONE_HEIGHT]

----------------------------------------------------------------------------
(* The compositor: configuration, fonts and reminders *)

\* a parsed config.yml, each key holding its value or, when the key is absent,
\* the default its .get() call names; weather.present is FALSE when the
\* "weather" key is absent or empty
DefaultMapping ==
    [weather   |-> [present |-> FALSE, unit |-> "fahrenheit", forecast_hours |-> 12],
     time      |-> [format_24h |-> FALSE, tz_ok |-> TRUE],
     reminders |-> [enabled |-> TRUE, max_items |-> 6]]

Mappings ==
    { [DefaultMapping EXCEPT !.weather.present = TRUE],
      [DefaultMapping EXCEPT !.weather.present = TRUE, !.weather.unit = "celsius",
                             !.weather.forecast_hours = 1, !.time.format_24h = TRUE],
      [DefaultMapping EXCEPT !.weather.present = TRUE, !.weather.forecast_hours = 0],
      [DefaultMapping EXCEPT !.weather.present = TRUE, !.weather.forecast_hours = 0 - 1,
                             !.reminders.max_items = 2],
      [DefaultMapping EXCEPT !.reminders.enabled = FALSE],
      [DefaultMapping EXCEPT !.time.tz_ok = FALSE] }

\* config.yml: missing, not YAML, empty, or a mapping
ConfigFiles ==
    { [state |-> st, mapping |-> DefaultMapping] : st \in {"missing", "unparsable", "empty"} }
    \cup { [state |-> "mapping", mapping |-> m] : m \in Mappings }

\* _load_config: yaml.safe_load gives None for an empty file
load_config(file) ==
    IF file.state \in {"missing", "unparsable"} THEN [kind |-> "dict", m |-> DefaultMapping]
    ELSE IF file.state = "empty" THEN [kind |-> "none", m |-> DefaultMapping]
    ELSE [kind |-> "dict", m |-> file.mapping]

FontStyles == {"regular", "bold", "mono"}

FontSizes == {"large", "medium", "small", "tiny", "48", "28", "32", "16"}

\* the first four sizes a candidate file is loaded at
FirstSizes == {"large", "medium", "small", "tiny"}

\* what a candidate font file does: it is absent, it loads at every size, its
\* first ImageFont.truetype call raises, or a later one raises
CandidateStates == {"absent", "loads", "fails_first", "fails_later"}

\* _load_fonts, the loops over font_paths and filenames for one style: the
\* size keys assigned so far, and whether a candidate loaded
RECURSIVE TryCandidates(_, _)
TryCandidates(candidates, assigned) ==
    IF candidates = <<>> THEN [font_found |-> FALSE, sizes |-> assigned]
    ELSE IF Head(candidates) = "loads"
    THEN [font_found |-> TRUE, sizes |-> [sz \in FontSizes |-> "truetype"]]
    ELSE IF Head(candidates) = "fails_later"
    THEN TryCandidates(Tail(candidates),
                       [sz \in (DOMAIN assigned) \cup FirstSizes |-> "truetype"])
    ELSE TryCandidates(Tail(candidates), assigned)

\* mutant: no fallback to the default font
LoadStyleNoFallback(candidates) == TryCandidates(candidates, <<>>).sizes

\* _load_fonts, one pass of the loop over font_files: "Fallback to default"
\* when no candidate loaded
LoadStyle(candidates) ==
    LET tried == TryCandidates(candidates, <<>>)
    IN  IF tried.font_found THEN tried.sizes ELSE [sz \in FontSizes |-> "default"]

\* _load_fonts: env gives, for each style, its candidate files in search order
load_fonts(env) ==
    [k \in { <<style, sz>> : style \in FontStyles, sz \in FontSizes } \cap
           { key \in FontStyles \X FontSizes : key[2] \in DOMAIN LoadStyle(env[key[1]]) }
       |-> LoadStyle(env[k[1]])[k[2]]]

\* self.fonts.get(key)
FontGet(fs, style, size) == IF <<style, size>> \in DOMAIN fs THEN fs[<<style, size>>] ELSE "None"

\* the font files of a machine on which exactly the given styles load
FontEnv(loadable) ==
    [style \in FontStyles |->
        IF style \in loadable THEN <<"absent", "loads">> ELSE <<"fails_later", "absent">>]

FontEnvironments == { FontEnv({}), FontEnv({"regular", "bold"}), FontEnv(FontStyles) }

\* the keys the zone renderers look up
UsedFontKeys ==
    { <<"mono", "16">>, <<"bold", "48">>, <<"regular", "medium">>, <<"regular", "small">>,
      <<"bold", "large">>, <<"mono", "28">>, <<"mono", "32">>, <<"mono", "tiny">> }

\* most candidate files of one style
MaxCandidates == 2

RECURSIVE CandidateSeqs(_)
CandidateSeqs(n) ==
    IF n = 0 THEN { <<>> }
    ELSE { Append(q, c) : q \in CandidateSeqs(n - 1), c \in CandidateStates }

LoadFontsCall(env) ==
    /\ op = NoOp
    /\ op' = [name |-> "_load_fonts", env |-> env]
    /\ out' = load_fonts(env)
    /\ UNCHANGED <<rotVars, renderVars>>

StartsWith(s, prefix) == Len(s) >= Len(prefix) /\ SubSeq(s, 1, Len(prefix)) = prefix

\* mutant: only the lower-case done marker is recognised
ParseReminderLowerOnly(line) ==
    IF StartsWith(line, <<"[", "x", "]">>)
    THEN [text |-> Strip(SubSeq(line, 4, Len(line))), priority |-> "normal", status |-> "done"]
    ELSE IF StartsWith(line, <<"[", "!", "]">>)
    THEN [text |-> Strip(SubSeq(line, 4, Len(line))), priority |-> "high", status |-> "pending"]
    ELSE IF StartsWith(line, <<"[", " ", "]">>)
    THEN [text |-> Strip(SubSeq(line, 4, Len(line))), priority |-> "normal", status |-> "pending"]
    ELSE [text |-> line, priority |-> "normal", status |-> "pending"]

\* "Parse status and priority" of a stripped line
ParseReminder(line) ==
    IF StartsWith(line, <<"[", "x", "]">>) \/ StartsWith(line, <<"[", "X", "]">>)
    THEN [text |-> Strip(SubSeq(line, 4, Len(line))), priority |-> "normal", status |-> "done"]
    ELSE IF StartsWith(line, <<"[", "!", "]">>)
    THEN [text |-> Strip(SubSeq(line, 4, Len(line))), priority |-> "high", status |-> "pending"]
    ELSE IF StartsWith(line, <<"[", " ", "]">>)
    THEN [text |-> Strip(SubSeq(line, 4, Len(line))), priority |-> "normal", status |-> "pending"]
    ELSE [text |-> line, priority |-> "normal", status |-> "pending"]

\* the loop over the lines of the reminders file
RECURSIVE LoadLines(_, _, _)
LoadLines(lines, loaded, max_items) ==
    IF lines = <<>> THEN loaded
    ELSE LET line == Strip(Head(lines))
         IN  IF line = <<>> \/ Head(line) = "#"
             THEN LoadLines(Tail(lines), loaded, max_items)
             ELSE LET appended == Append(loaded, ParseReminder(line))
                  IN  IF Len(appended) >= max_items THEN appended
                      ELSE LoadLines(Tail(lines), appended, max_items)

load_reminders(cfg, file) ==
    IF ~cfg.m.reminders.enabled THEN <<>>
    ELSE IF ~file.exists THEN <<>>
    ELSE LoadLines(file.lines, <<>>, cfg.m.reminders.max_items)

ReminderFiles ==
    { [exists |-> FALSE, lines |-> <<>>],
      [exists |-> TRUE, lines |-> <<>>],
      [exists |-> TRUE,
       lines |-> << <<"#", " ", "t", "o", "d", "o", "\n">>,
                    <<"\n">>,
                    <<"[", "x", "]", " ", "a", "\n">>,
                    <<" ", "[", "!", "]", "b", "\n">>,
                    <<"[", " ", "]", " ", "c", "\n">>,
                    <<"d", " ", "e">> >>],
      [exists |-> TRUE,
       lines |-> << <<"d", "\n">>, <<"d", "\n">>, <<"[", "X", "]", "a", "\n">>,
                    <<"d", "\n">>, <<"[", "!", "]", " ", "b", "\n">>,
                    <<"d", "\n">>, <<"d", "\n">> >>] }

----------------------------------------------------------------------------
(* The compositor: DashboardRenderer.__init__ and DashboardRenderer.render *)

\* the parameters of weather_render.render_weather_zone
RenderWeatherZoneParams ==
    {"draw", "x", "y", "width", "height", "temperature", "unit", "condition",
     "high", "low", "fonts", "city"}

\* the keyword arguments render_weather_zone_wrapper passes to it
WrapperKeywords ==
    {"draw", "x", "y", "width", "height", "temperature", "unit", "condition",
     "high", "low", "fonts", "city", "sunrise", "sunset", "wind_speed", "precip_chance"}

Clocks == { [hour |-> 0, minute |-> 0], [hour |-> 12, minute |-> 30], [hour |-> 13, minute |-> 5] }

NoOutcome == [returned |-> "none", error |-> "", at |-> ""]

Raised(error, at) == [returned |-> "raised", error |-> error, at |-> at]

Drawing(zone, rect, what) == [zone |-> zone, rect |-> rect, what |-> what]

\* __init__: load the configuration and the fonts; nothing else is checked
Construct(cfgFile, env) ==
    /\ rpc = "init"
    /\ rpc' = "ready"
    /\ config' = load_config(cfgFile)
    /\ fonts' = load_fonts(env)
    /\ UNCHANGED <<layout, weather, reminders, drawn, saved, outcome>>

\* render: "Create base canvas" and "Fetch weather"
FetchWeather(response) ==
    /\ rpc = "ready"
    /\ IF config.kind = "none"
       THEN /\ rpc' = "raised"
            /\ outcome' = Raised("AttributeError", "render")
            /\ UNCHANGED weather
       ELSE IF ~config.m.weather.present
       THEN /\ rpc' = "fetched"
            /\ weather' = ReturnNone
            /\ UNCHANGED outcome
       ELSE LET w == fetch_weather(response, config.m.weather.unit,
                                   config.m.weather.forecast_hours)
            IN  IF w.status = "raised"
                THEN /\ rpc' = "raised"
                     /\ outcome' = Raised(w.error, "fetch_weather")
                     /\ weather' = w
                ELSE /\ rpc' = "fetched"
                     /\ weather' = w
                     /\ UNCHANGED outcome
    /\ UNCHANGED <<layout, config, fonts, reminders, drawn, saved>>

\* render: "Load reminders"
LoadReminders(file) ==
    /\ rpc = "fetched"
    /\ rpc' = "loaded"
    /\ reminders' = load_reminders(config, file)
    /\ UNCHANGED <<layout, config, fonts, weather, drawn, saved, outcome>>

\* render_time_zone; _get_current_time raises for an unknown timezone name
RenderTimeZone(now) ==
    /\ rpc = "loaded"
    /\ IF ~config.m.time.tz_ok
       THEN /\ rpc' = "raised"
            /\ outcome' = Raised("ZoneInfoNotFoundError", "render_time_zone")
            /\ UNCHANGED drawn
       ELSE /\ rpc' = "time"
            /\ drawn' = Append(drawn, Drawing("time", TimeZone(layout),
                               [kind |-> "clock", hour |-> now.hour, minute |-> now.minute]))
            /\ UNCHANGED outcome
    /\ UNCHANGED <<layout, config, fonts, weather, reminders, saved>>

\* render_weather_zone_wrapper
RenderWeatherZone ==
    /\ rpc = "time"
    /\ IF weather.status # "ok"
       THEN /\ rpc' = "weather"
            /\ drawn' = Append(drawn, Drawing("weather", WeatherZone(layout),
                               [kind |-> "placeholder", hour |-> 0, minute |-> 0]))
            /\ UNCHANGED outcome
       ELSE IF ~(WrapperKeywords \subseteq RenderWeatherZoneParams)
       THEN /\ rpc' = "raised"
            /\ outcome' = Raised("TypeError", "render_weather_zone")
            /\ UNCHANGED drawn
       ELSE /\ rpc' = "weather"
            /\ drawn' = Append(drawn, Drawing("weather", WeatherZone(layout),
                               [kind |-> "weather", hour |-> 0, minute |-> 0]))
            /\ UNCHANGED outcome
    /\ UNCHANGED <<layout, config, fonts, weather, reminders, saved>>

\* render_calendar_zone
RenderCalendarZone ==
    /\ rpc = "weather"
    /\ rpc' = "calendar"
    /\ drawn' = Append(drawn, Drawing("calendar", CalendarZone(layout),
                       [kind |-> "calendar", hour |-> 0, minute |-> 0]))
    /\ UNCHANGED <<layout, config, fonts, weather, reminders, saved, outcome>>

\* render_reminders_zone
RenderRemindersZone ==
    /\ rpc = "calendar"
    /\ rpc' = "reminders"
    /\ drawn' = Append(drawn, Drawing("reminders", RemindersZone(layout),
                       [kind |-> "reminders", hour |-> 0, minute |-> 0]))
    /\ UNCHANGED <<layout, config, fonts, weather, reminders, saved, outcome>>

\* mutant: the image is saved before the reminders zone is drawn
SaveImageBeforeReminders(writable) ==
    /\ rpc = "calendar"
    /\ rpc' = "reminders"
    /\ saved' = saved + 1
    /\ UNCHANGED <<layout, config, fonts, weather, reminders, drawn, outcome>>

\* render: exit indicator, os.makedirs, image.save, return True
SaveImage(writable) ==
    /\ rpc = "reminders"
    /\ IF writable
       THEN /\ rpc' = "done"
            /\ saved' = saved + 1
            /\ outcome' = [returned |-> "True", error |-> "", at |-> ""]
       ELSE /\ rpc' = "raised"
            /\ outcome' = Raised("OSError", "render")
            /\ UNCHANGED saved
    /\ UNCHANGED <<layout, config, fonts, weather, reminders, drawn>>

----------------------------------------------------------------------------
(* The calendar grid (calendar_render.py, over the standard calendar module) *)

\* calendar.isleap
isleap(year) == year % 4 = 0 /\ (year % 100 # 0 \/ year % 400 = 0)

\* calendar.mdays
mdays == <<31, 28, 31, 30, 31, 30, 31, 31, 30, 31, 30, 31>>

\* datetime._days_before_year
days_before_year(year) ==
    LET y == year - 1 IN y * 365 + (y \div 4) - (y \div 100) + (y \div 400)

\* datetime._days_before_month
RECURSIVE days_before_month(_, _)
days_before_month(year, month) ==
    IF month = 1 THEN 0
    ELSE days_before_month(year, month - 1) + mdays[month - 1]
         + (IF month - 1 = 2 /\ isleap(year) THEN 1 ELSE 0)

\* calendar.weekday: date.weekday() of the day, Monday = 0; a year outside
\* 1..9999 is first mapped into the 400-year cycle
weekday(year, month, day) ==
    LET y == IF year >= 1 /\ year <= 9999 THEN year ELSE 2000 + (year % 400)
    IN  (days_before_year(y) + days_before_month(y, month) + day + 6) % 7

\* calendar.monthrange
monthrange(year, month) ==
    [day1 |-> weekday(year, month, 1),
     ndays |-> mdays[month] + (IF month = 2 /\ isleap(year) THEN 1 ELSE 0)]

\* Calendar(firstweekday).itermonthdays: zeros, the days, zeros
itermonthdays(firstweekday, year, month) ==
    LET mr == monthrange(year, month)
        days_before == (mr.day1 - firstweekday) % 7
        days_after == (firstweekday - mr.day1 - mr.ndays) % 7
    IN  [i \in 1..(days_before + mr.ndays + days_after) |->
            IF i <= days_before \/ i > days_before + mr.ndays THEN 0 ELSE i - days_before]

\* Calendar.monthdayscalendar: the days in chunks of seven
monthdayscalendar(firstweekday, year, month) ==
    LET days == itermonthdays(firstweekday, year, month)
    IN  [w \in 1..(Len(days) \div 7) |-> SubSeq(days, 7 * (w - 1) + 1, 7 * w)]

\* the value of a cell: None for 0, the day otherwise
EmptyCell == [empty |-> TRUE, day |-> 0]

Cell(day) == IF day # 0 THEN [empty |-> FALSE, day |-> day] ELSE EmptyCell

\* mutant: the grid is not padded to six rows
get_month_grid_unpadded(year, month) ==
    LET month_days == monthdayscalendar(6, year, month)
    IN  [w \in 1..Len(month_days) |-> [c \in 1..7 |-> Cell(month_days[w][c])]]

get_month_grid(year, month) ==
    LET month_days == monthdayscalendar(6, year, month)
    IN  [w \in 1..Max(Len(month_days), 6) |->
            IF w <= Len(month_days) THEN [c \in 1..7 |-> Cell(month_days[w][c])]
            ELSE [c \in 1..7 |-> EmptyCell]]

\* the years and months the grid is computed for
Years == {0, 1, 1900, 2000, 2015, 2023, 2024, 2026, 2100, 9999, 10000}

Months == 1..12

GetMonthGrid(year, month) ==
    /\ op = NoOp
    /\ op' = [name |-> "get_month_grid", year |-> year, month |-> month]
    /\ out' = get_month_grid(year, month)
    /\ UNCHANGED <<rotVars, renderVars>>

\* mutant: the cursor test compares the days modulo the week
IsTodaySameWeekday(day, today) == day % 7 = today % 7

\* render_calendar: "if day == today"
IsToday(day, today) == day = today

\* render_calendar, "Draw day numbers": one drawing per non-empty cell of the
\* grid in row-major order, at the centre of the cell; the cursor cell gets a
\* filled rectangle and its text in the background colour
render_calendar(zone, year, month, today) ==
    LET col_width == zone.width \div 7
        grid_top == zone.y + 50 + 40
        row_height == (zone.height - 50 - 40) \div 6
        grid == get_month_grid(year, month)
        cells == [i \in 1..(7 * Len(grid)) |->
                    LET row_idx == (i - 1) \div 7
                        col_idx == (i - 1) % 7
                        cell == grid[row_idx + 1][col_idx + 1]
                    IN  [empty |-> cell.empty, day |-> cell.day,
                         row_idx |-> row_idx, col_idx |-> col_idx,
                         cell_x |-> zone.x + col_idx * col_width + (col_width \div 2),
                         cell_y |-> grid_top + row_idx * row_height + (row_height \div 2),
                         rectangle |-> ~cell.empty /\ IsToday(cell.day, today),
                         text_fill |-> IF ~cell.empty /\ IsToday(cell.day, today)
                                       THEN "bg" ELSE "fill"]]
    IN  SelectSeq(cells, LAMBDA c : ~c.empty)

\* the values of the today argument
Todays == {0 - 1, 0, 1, 15, 28, 29, 30, 31, 32}

RenderCalendar(year, month, today) ==
    /\ op = NoOp
    /\ op' = [name |-> "render_calendar", year |-> year, month |-> month, today |-> today]
    /\ out' = render_calendar(CalendarZone(layout), year, month, today)
    /\ UNCHANGED <<rotVars, renderVars>>

----------------------------------------------------------------------------
(* The block digits (ascii_digits.py) *)

DIGIT_WIDTH == 80

DIGIT_HEIGHT == 100

GRID_COLS == 5

GRID_ROWS == 7

CELL_WIDTH == 16

CELL_HEIGHT == 14

DIGIT_GAP == 20

COLON_WIDTH == 20

\* DIGIT_PATTERNS[digit]: 7 rows of 5 cells, 1 = filled
DIGIT_PATTERNS(digit) ==
    IF digit = "0"
    THEN <<
               <<0, 1, 1, 1, 0>>,
               <<1, 0, 0, 0, 1>>,
               <<1, 0, 0, 0, 1>>,
               <<1, 0, 0, 0, 1>>,
               <<1, 0, 0, 0, 1>>,
               <<1, 0, 0, 0, 1>>,
               <<0, 1, 1, 1, 0>> >>
    ELSE
    IF digit = "1"
    THEN <<
               <<0, 0, 1, 0, 0>>,
               <<0, 1, 1, 0, 0>>,
               <<0, 0, 1, 0, 0>>,
               <<0, 0, 1, 0, 0>>,
               <<0, 0, 1, 0, 0>>,
               <<0, 0, 1, 0, 0>>,
               <<0, 1, 1, 1, 0>> >>
    ELSE
    IF digit = "2"
    THEN <<
               <<0, 1, 1, 1, 0>>,
               <<1, 0, 0, 0, 1>>,
               <<0, 0, 0, 0, 1>>,
               <<0, 0, 1, 1, 0>>,
               <<0, 1, 0, 0, 0>>,
               <<1, 0, 0, 0, 0>>,
               <<1, 1, 1, 1, 1>> >>
    ELSE
    IF digit = "3"
    THEN <<
               <<0, 1, 1, 1, 0>>,
               <<1, 0, 0, 0, 1>>,
               <<0, 0, 0, 0, 1>>,
               <<0, 0, 1, 1, 0>>,
               <<0, 0, 0, 0, 1>>,
               <<1, 0, 0, 0, 1>>,
               <<0, 1, 1, 1, 0>> >>
    ELSE
    IF digit = "4"
    THEN <<
               <<1, 0, 0, 0, 1>>,
               <<1, 0, 0, 0, 1>>,
               <<1, 0, 0, 0, 1>>,
               <<1, 1, 1, 1, 1>>,
               <<0, 0, 0, 0, 1>>,
               <<0, 0, 0, 0, 1>>,
               <<0, 0, 0, 0, 1>> >>
    ELSE
    IF digit = "5"
    THEN <<
               <<1, 1, 1, 1, 1>>,
               <<1, 0, 0, 0, 0>>,
               <<1, 0, 0, 0, 0>>,
               <<1, 1, 1, 1, 0>>,
               <<0, 0, 0, 0, 1>>,
               <<0, 0, 0, 0, 1>>,
               <<1, 1, 1, 1, 0>> >>
    ELSE
    IF digit = "6"
    THEN <<
               <<0, 1, 1, 1, 0>>,
               <<1, 0, 0, 0, 0>>,
               <<1, 0, 0, 0, 0>>,
               <<1, 1, 1, 1, 0>>,
               <<1, 0, 0, 0, 1>>,
               <<1, 0, 0, 0, 1>>,
               <<0, 1, 1, 1, 0>> >>
    ELSE
    IF digit = "7"
    THEN <<
               <<1, 1, 1, 1, 1>>,
               <<0, 0, 0, 0, 1>>,
               <<0, 0, 0, 1, 0>>,
               <<0, 0, 1, 0, 0>>,
               <<0, 0, 1, 0, 0>>,
               <<0, 0, 1, 0, 0>>,
               <<0, 0, 1, 0, 0>> >>
    ELSE
    IF digit = "8"
    THEN <<
               <<0, 1, 1, 1, 0>>,
               <<1, 0, 0, 0, 1>>,
               <<1, 0, 0, 0, 1>>,
               <<0, 1, 1, 1, 0>>,
               <<1, 0, 0, 0, 1>>,
               <<1, 0, 0, 0, 1>>,
               <<0, 1, 1, 1, 0>> >>
    ELSE
    IF digit = "9"
    THEN <<
               <<0, 1, 1, 1, 0>>,
               <<1, 0, 0, 0, 1>>,
               <<1, 0, 0, 0, 1>>,
               <<0, 1, 1, 1, 1>>,
               <<0, 0, 0, 0, 1>>,
               <<0, 0, 0, 0, 1>>,
               <<0, 1, 1, 1, 0>> >>
    ELSE <<>>

\* digit in DIGIT_PATTERNS
HasPattern(digit) == DIGIT_PATTERNS(digit) # <<>>

\* the rectangle render_digit draws for the cell in row row_idx, column
\* col_idx (both from 0), corners inclusive
CellRect(row_idx, col_idx, x, y) ==
    LET cell_x == x + col_idx * CELL_WIDTH
        cell_y == y + row_idx * CELL_HEIGHT
    IN  [x0 |-> cell_x, y0 |-> cell_y,
         x1 |-> cell_x + CELL_WIDTH - 1, y1 |-> cell_y + CELL_HEIGHT - 1]

\* render_digit: ValueError and nothing drawn for a character without a
\* pattern, otherwise one rectangle per filled cell and DIGIT_WIDTH returned
render_digit(digit, x, y) ==
    IF ~HasPattern(digit)
    THEN [raised |-> "ValueError", rects |-> {}, width |-> 0]
    ELSE LET pattern == DIGIT_PATTERNS(digit)
         IN  [raised |-> "",
              rects |-> { CellRect(r - 1, c - 1, x, y) :
                            <<r, c>> \in { rc \in (1..Len(pattern)) \X (1..GRID_COLS) :
                                             rc[2] <= Len(pattern[rc[1]])
                                             /\ pattern[rc[1]][rc[2]] = 1 } },
              width |-> DIGIT_WIDTH]

\* render_colon: two square dots in rows 1 and 4 of the grid, COLON_WIDTH returned
render_colon(x, y) ==
    LET dot_size == CELL_HEIGHT
        dot_x == x + (COLON_WIDTH - dot_size) \div 2
        top_dot_y == y + 1 * CELL_HEIGHT + (CELL_HEIGHT - dot_size) \div 2
        bottom_dot_y == y + 4 * CELL_HEIGHT + (CELL_HEIGHT - dot_size) \div 2
    IN  [rects |-> { [x0 |-> dot_x, y0 |-> top_dot_y,
                      x1 |-> dot_x + dot_size - 1, y1 |-> top_dot_y + dot_size - 1],
                     [x0 |-> dot_x, y0 |-> bottom_dot_y,
                      x1 |-> dot_x + dot_size - 1, y1 |-> bottom_dot_y + dot_size - 1] },
         width |-> COLON_WIDTH]

\* the characters render_digit is called with: the ten digits and others
DigitArgs == { Digits[i] : i \in 1..Len(Digits) } \cup {":", " ", "a", "-"}

\* the origins of the direct render_digit calls
Origins == {0, 1, 80, 1120}

RenderDigit(digit, x, y) ==
    /\ op = NoOp
    /\ op' = [name |-> "render_digit", digit |-> digit, x |-> x, y |-> y]
    /\ out' = render_digit(digit, x, y)
    /\ UNCHANGED <<rotVars, renderVars>>

\* mutant: the 12-hour conversion is hour mod 12
DisplayHourMod12(hour, twelve_hour) == IF twelve_hour THEN hour % 12 ELSE hour

\* render_time, "Handle 12-hour conversion": display_hour
DisplayHour(hour, twelve_hour) ==
    IF ~twelve_hour THEN hour
    ELSE IF hour = 0 THEN 12
    ELSE IF hour < 12 THEN hour
    ELSE IF hour = 12 THEN 12
    ELSE hour - 12

\* render_time, "Handle 12-hour conversion": am_pm
Meridiem(hour, twelve_hour) ==
    IF ~twelve_hour THEN ""
    ELSE IF hour < 12 THEN "AM" ELSE "PM"

\* f"{n:02d}"
Format02d(n) == LET t == IntToStr(n) IN IF Len(t) < 2 THEN <<"0">> \o t ELSE t

\* mutant: the digits of a run are packed without the gap
RECURSIVE DigitRunPacked(_, _, _, _)
DigitRunPacked(str, x, y, step) ==
    IF str = <<>> THEN <<>>
    ELSE <<[kind |-> "digit", glyph |-> Head(str), x |-> x, y |-> y]>>
         \o DigitRunPacked(Tail(str), x + DIGIT_WIDTH, y, step)

\* the render_digit calls of one loop over a string: a glyph every step pixels
RECURSIVE DigitRun(_, _, _, _)
DigitRun(str, x, y, step) ==
    IF str = <<>> THEN <<>>
    ELSE <<[kind |-> "digit", glyph |-> Head(str), x |-> x, y |-> y]>>
         \o DigitRun(Tail(str), x + step, y, step)

\* render_time: the glyphs drawn left to right, the width consumed and the
\* meridiem; render_digit raises ValueError for a character that has no pattern
render_time(hour, minute, x, y, twelve_hour) ==
    LET hour_str == Format02d(DisplayHour(hour, twelve_hour))
        minute_str == Format02d(minute)
        colon_x == x + Len(hour_str) * (DIGIT_WIDTH + DIGIT_GAP) - DIGIT_GAP
        minute_x == colon_x + COLON_WIDTH
        end_x == minute_x + Len(minute_str) * DIGIT_WIDTH + (Len(minute_str) - 1) * DIGIT_GAP
        glyphs == DigitRun(hour_str, x, y, DIGIT_WIDTH + DIGIT_GAP)
                  \o <<[kind |-> "colon", glyph |-> ":", x |-> colon_x, y |-> y]>>
                  \o DigitRun(minute_str, minute_x, y, DIGIT_WIDTH + DIGIT_GAP)
    IN  IF \E i \in 1..Len(glyphs) : glyphs[i].kind = "digit" /\ ~IsDigit(glyphs[i].glyph)
        THEN [raised |-> TRUE, glyphs |-> <<>>, total_width |-> 0, am_pm |-> ""]
        ELSE [raised |-> FALSE, glyphs |-> glyphs, total_width |-> end_x - x,
              am_pm |-> Meridiem(hour, twelve_hour)]

\* render_time as render_time_zone calls it: at zone_x + 50, zone_y + 60
RenderTime(hour, minute, twelve_hour) ==
    /\ op = NoOp
    /\ op' = [name |-> "render_time", hour |-> hour, minute |-> minute,
              twelve_hour |-> twelve_hour,
              x |-> TimeZone(layout).x + 50, y |-> TimeZone(layout).y + 60]
    /\ out' = render_time(hour, minute, TimeZone(layout).x + 50, TimeZone(layout).y + 60,
                          twelve_hour)
    /\ UNCHANGED <<rotVars, renderVars>>

----------------------------------------------------------------------------
(* Direct calls of DashboardRenderer._load_reminders *)

\* most lines of a reminders file
MaxLines == 3

\* the lines a reminders file is made of: blank, comment, each marker, no
\* marker, a marker with no text, an unknown marker
LineTexts ==
    { <<"\n">>,
      <<"#", " ", "c", "\n">>,
      <<"[", "x", "]", " ", "a", "\n">>,
      <<"[", "X", "]", "a", "\n">>,
      <<" ", "[", "!", "]", " ", "b", " ", "\n">>,
      <<"[", " ", "]", " ", "c", "\n">>,
      <<"d", " ", "e", "\n">>,
      <<"[", "x", "]", "\n">>,
      <<"[", "?", "]", " ", "f">> }

RECURSIVE LineSeqs(_)
LineSeqs(n) ==
    IF n = 0 THEN { <<>> }
    ELSE LET shorter == LineSeqs(n - 1)
         IN  shorter \cup { Append(q, l) : q \in { t \in shorter : Len(t) = n - 1 }, l \in LineTexts }

\* the values of reminders.max_items
MaxItemsValues == {0 - 1, 0, 1, 2, 6}

LoadRemindersCall(enabled, max_items, file) ==
    /\ op = NoOp
    /\ op' = [name |-> "_load_reminders", enabled |-> enabled, max_items |-> max_items,
              file |-> file]
    /\ out' = load_reminders([kind |-> "dict",
                              m |-> [DefaultMapping EXCEPT !.reminders.enabled = enabled,
                                                           !.reminders.max_items = max_items]],
                             file)
    /\ UNCHANGED <<rotVars, renderVars>>

----------------------------------------------------------------------------
(* The zone renderers of DashboardRenderer, called directly *)

\* render_time_zone: the digits at zone_x + 50, zone_y + 60; boxes holds the
\* rectangles render_digit and render_colon fill
render_time_zone(lay, format_24h, now) ==
    LET zone == TimeZone(lay)
        digits_y == zone.y + 60
        drawn_time == render_time(now.hour, now.minute, zone.x + 50, digits_y, ~format_24h)
        g == drawn_time.glyphs
    IN  [zone |-> zone,
         total_width |-> drawn_time.total_width,
         am_pm |-> drawn_time.am_pm,
         boxes |-> UNION { IF g[i].kind = "colon" THEN render_colon(g[i].x, g[i].y).rects
                           ELSE render_digit(g[i].glyph, g[i].x, g[i].y).rects :
                           i \in 1..Len(g) }]

\* render_calendar_zone: render_calendar on the calendar zone's rectangle
render_calendar_zone(lay, year, month, today) ==
    [zone |-> CalendarZone(lay),
     cells |-> render_calendar(CalendarZone(lay), year, month, today)]

\* mutant: a done reminder is drawn with the pending checkbox
CheckboxPrefixNoDone(reminder) ==
    IF reminder.priority = "high" THEN <<"[", "!", "]">> ELSE <<"[", " ", "]">>

\* "Determine checkbox style"
CheckboxPrefix(reminder) ==
    IF reminder.status = "done" THEN <<"[", "x", "]">>
    ELSE IF reminder.priority = "high" THEN <<"[", "!", "]">>
    ELSE <<"[", " ", "]">>

\* f"{prefix} {reminder['text']}" and "Truncate if too long"
ReminderText(reminder) ==
    LET text == CheckboxPrefix(reminder) \o <<" ">> \o reminder.text
        max_chars == 35
    IN  IF Len(text) > max_chars
        THEN SubSeq(text, 1, max_chars - 3) \o <<".", ".", ".">>
        ELSE text

\* mutant: the reminders are drawn in one column
RowOriginOneColumn(lay, k) ==
    [x |-> lay.MARGIN + 20, y |-> RemindersZone(lay).y + 45 + k * 50]

\* where reminder k (from 0) of the first six is drawn: three per column
RowOrigin(lay, k) ==
    LET max_per_column == 3
        line_height == 50
        items_y == RemindersZone(lay).y + 45
        i == k % max_per_column
    IN  [x |-> IF k < max_per_column THEN lay.MARGIN + 20 ELSE lay.MARGIN + 588,
         y |-> items_y + i * line_height]

\* render_reminders_zone: the rows of the left column, then of the right one
render_reminders_zone(lay, loaded) ==
    LET shown == SubSeq(loaded, 1, Min(Len(loaded), 6))
    IN  [zone |-> RemindersZone(lay),
         reminders |-> loaded,
         placeholder |-> loaded = <<>>,
         rows |-> [k \in 1..Len(shown) |->
                     [x |-> RowOrigin(lay, k - 1).x, y |-> RowOrigin(lay, k - 1).y,
                      prefix |-> CheckboxPrefix(shown[k]),
                      text |-> ReminderText(shown[k])]]]

\* most lines of a reminders file that is loaded and drawn
MaxRows == 7

\* a run of n characters
Filler(n) == [i \in 1..n |-> "z"]

\* the lines the drawn reminders files are made of: each marker, no marker,
\* ignored lines, and texts at and over the length that is truncated
RowLines ==
    << <<"[", "x", "]", " ", "a", "\n">>,
       <<"d", " ", "e", "\n">>,
       <<" ", "[", "!", "]", " ", "b", " ", "\n">>,
       <<"#", " ", "c", "\n">>,
       <<"[", "X", "]", "a", "\n">>,
       <<"[", " ", "]", " ", "c", "\n">>,
       <<"[", "!", "]", " ">> \o Filler(40) \o <<"\n">>,
       <<"\n">>,
       Filler(31) \o <<"\n">>,
       <<"[", "?", "]", " ", "f", "\n">>,
       <<"[", "x", "]", "[", "!", "]", " ">> \o Filler(26) \o <<"\n">> >>

\* the reminders files drawn: n consecutive lines of RowLines from line s on
RowFiles ==
    { [i \in 1..n |-> RowLines[((s + i - 2) % Len(RowLines)) + 1]] :
        n \in 0..MaxRows, s \in 1..Len(RowLines) }

RenderTimeZoneCall(hour, minute, format_24h) ==
    /\ op = NoOp
    /\ op' = [name |-> "render_time_zone", hour |-> hour, minute |-> minute,
              format_24h |-> format_24h]
    /\ out' = render_time_zone(layout, format_24h, [hour |-> hour, minute |-> minute])
    /\ UNCHANGED <<rotVars, renderVars>>

RenderCalendarZoneCall(year, month, today) ==
    /\ op = NoOp
    /\ op' = [name |-> "render_calendar_zone", year |-> year, month |-> month,
              today |-> today]
    /\ out' = render_calendar_zone(layout, year, month, today)
    /\ UNCHANGED <<rotVars, renderVars>>

\* _load_reminders on a file, then render_reminders_zone on what it returned
RenderRemindersZoneCall(max_items, lines) ==
    /\ op = NoOp
    /\ op' = [name |-> "render_reminders_zone", max_items |-> max_items, lines |-> lines]
    /\ out' = render_reminders_zone(layout,
                  load_reminders([kind |-> "dict",
                                  m |-> [DefaultMapping EXCEPT !.reminders.max_items = max_items]],
                                 [exists |-> TRUE, lines |-> lines]))
    /\ UNCHANGED <<rotVars, renderVars>>

----------------------------------------------------------------------------
(* The weather icon of a description (weather_render.py, weather.py) *)

UpperLetters == <<"A", "B", "C", "D", "E", "F", "G", "H", "I", "J", "K", "L", "M", "N", "O", "P", "Q", "R", "S", "T", "U", "V", "W", "X", "Y", "Z">>

LowerLetters == <<"a", "b", "c", "d", "e", "f", "g", "h", "i", "j", "k", "l", "m", "n", "o", "p", "q", "r", "s", "t", "u", "v", "w", "x", "y", "z">>

\* str.lower() and str.upper(), character by character
ToLower(text) ==
    [i \in 1..Len(text) |->
        IF \E j \in 1..26 : UpperLetters[j] = text[i]
        THEN LowerLetters[CHOOSE j \in 1..26 : UpperLetters[j] = text[i]]
        ELSE text[i]]

ToUpper(text) ==
    [i \in 1..Len(text) |->
        IF \E j \in 1..26 : LowerLetters[j] = text[i]
        THEN UpperLetters[CHOOSE j \in 1..26 : LowerLetters[j] = text[i]]
        ELSE text[i]]

\* keyword in text
Contains(text, keyword) ==
    \E i \in 0..(Len(text) - Len(keyword)) : SubSeq(text, i + 1, i + Len(keyword)) = keyword

\* the keys of WEATHER_ICONS
WEATHER_ICONS == {"clear", "partly_cloudy", "cloudy", "rain", "snow", "thunderstorm", "fog"}

\* the description WEATHER_CODES gives each weather code, spelled out
DescriptionTexts ==
    << [code |-> 0, description |-> <<"C", "l", "e", "a", "r">>],
       [code |-> 1, description |-> <<"M", "a", "i", "n", "l", "y", " ", "C", "l", "e", "a", "r">>],
       [code |-> 2, description |-> <<"P", "a", "r", "t", "l", "y", " ", "C", "l", "o", "u", "d", "y">>],
       [code |-> 3, description |-> <<"O", "v", "e", "r", "c", "a", "s", "t">>],
       [code |-> 45, description |-> <<"F", "o", "g", "g", "y">>],
       [code |-> 48, description |-> <<"F", "o", "g">>],
       [code |-> 51, description |-> <<"L", "i", "g", "h", "t", " ", "D", "r", "i", "z", "z", "l", "e">>],
       [code |-> 53, description |-> <<"D", "r", "i", "z", "z", "l", "e">>],
       [code |-> 55, description |-> <<"D", "e", "n", "s", "e", " ", "D", "r", "i", "z", "z", "l", "e">>],
       [code |-> 61, description |-> <<"S", "l", "i", "g", "h", "t", " ", "R", "a", "i", "n">>],
       [code |-> 63, description |-> <<"R", "a", "i", "n">>],
       [code |-> 65, description |-> <<"H", "e", "a", "v", "y", " ", "R", "a", "i", "n">>],
       [code |-> 71, description |-> <<"S", "l", "i", "g", "h", "t", " ", "S", "n", "o", "w">>],
       [code |-> 73, description |-> <<"S", "n", "o", "w">>],
       [code |-> 75, description |-> <<"H", "e", "a", "v", "y", " ", "S", "n", "o", "w">>],
       [code |-> 77, description |-> <<"S", "n", "o", "w", " ", "G", "r", "a", "i", "n", "s">>],
       [code |-> 80, description |-> <<"S", "l", "i", "g", "h", "t", " ", "S", "h", "o", "w", "e", "r", "s">>],
       [code |-> 81, description |-> <<"S", "h", "o", "w", "e", "r", "s">>],
       [code |-> 82, description |-> <<"V", "i", "o", "l", "e", "n", "t", " ", "S", "h", "o", "w", "e", "r", "s">>],
       [code |-> 85, description |-> <<"S", "n", "o", "w", " ", "S", "h", "o", "w", "e", "r", "s">>],
       [code |-> 86, description |-> <<"H", "e", "a", "v", "y", " ", "S", "n", "o", "w", " ", "S", "h", "o", "w", "e", "r", "s">>],
       [code |-> 95, description |-> <<"T", "h", "u", "n", "d", "e", "r", "s", "t", "o", "r", "m">>],
       [code |-> 96, description |-> <<"T", "h", "u", "n", "d", "e", "r", "s", "t", "o", "r", "m", " ", "w", "/", " ", "H", "a", "i", "l">>],
       [code |-> 99, description |-> <<"S", "e", "v", "e", "r", "e", " ", "T", "h", "u", "n", "d", "e", "r", "s", "t", "o", "r", "m">>] >>

\* the description of a code that WEATHER_CODES does not hold
Unknown == <<"U", "n", "k", "n", "o", "w", "n">>

\* CONDITION_MAPPINGS, in the order a loop over its items visits them
CONDITION_MAPPINGS ==
    << [keyword |-> <<"c", "l", "e", "a", "r">>, icon_key |-> "clear"],
       [keyword |-> <<"s", "u", "n", "n", "y">>, icon_key |-> "clear"],
       [keyword |-> <<"f", "a", "i", "r">>, icon_key |-> "clear"],
       [keyword |-> <<"p", "a", "r", "t", "l", "y", " ", "c", "l", "o", "u", "d", "y">>, icon_key |-> "partly_cloudy"],
       [keyword |-> <<"p", "a", "r", "t", "l", "y", " ", "s", "u", "n", "n", "y">>, icon_key |-> "partly_cloudy"],
       [keyword |-> <<"m", "o", "s", "t", "l", "y", " ", "s", "u", "n", "n", "y">>, icon_key |-> "partly_cloudy"],
       [keyword |-> <<"m", "o", "s", "t", "l", "y", " ", "c", "l", "e", "a", "r">>, icon_key |-> "partly_cloudy"],
       [keyword |-> <<"m", "a", "i", "n", "l", "y", " ", "c", "l", "e", "a", "r">>, icon_key |-> "partly_cloudy"],
       [keyword |-> <<"c", "l", "o", "u", "d", "y">>, icon_key |-> "cloudy"],
       [keyword |-> <<"o", "v", "e", "r", "c", "a", "s", "t">>, icon_key |-> "cloudy"],
       [keyword |-> <<"m", "o", "s", "t", "l", "y", " ", "c", "l", "o", "u", "d", "y">>, icon_key |-> "cloudy"],
       [keyword |-> <<"r", "a", "i", "n">>, icon_key |-> "rain"],
       [keyword |-> <<"r", "a", "i", "n", "y">>, icon_key |-> "rain"],
       [keyword |-> <<"d", "r", "i", "z", "z", "l", "e">>, icon_key |-> "rain"],
       [keyword |-> <<"s", "h", "o", "w", "e", "r", "s">>, icon_key |-> "rain"],
       [keyword |-> <<"l", "i", "g", "h", "t", " ", "r", "a", "i", "n">>, icon_key |-> "rain"],
       [keyword |-> <<"h", "e", "a", "v", "y", " ", "r", "a", "i", "n">>, icon_key |-> "rain"],
       [keyword |-> <<"m", "o", "d", "e", "r", "a", "t", "e", " ", "r", "a", "i", "n">>, icon_key |-> "rain"],
       [keyword |-> <<"s", "n", "o", "w">>, icon_key |-> "snow"],
       [keyword |-> <<"s", "n", "o", "w", "y">>, icon_key |-> "snow"],
       [keyword |-> <<"f", "l", "u", "r", "r", "i", "e", "s">>, icon_key |-> "snow"],
       [keyword |-> <<"l", "i", "g", "h", "t", " ", "s", "n", "o", "w">>, icon_key |-> "snow"],
       [keyword |-> <<"h", "e", "a", "v", "y", " ", "s", "n", "o", "w">>, icon_key |-> "snow"],
       [keyword |-> <<"s", "l", "e", "e", "t">>, icon_key |-> "snow"],
       [keyword |-> <<"i", "c", "e">>, icon_key |-> "snow"],
       [keyword |-> <<"t", "h", "u", "n", "d", "e", "r", "s", "t", "o", "r", "m">>, icon_key |-> "thunderstorm"],
       [keyword |-> <<"t", "h", "u", "n", "d", "e", "r">>, icon_key |-> "thunderstorm"],
       [keyword |-> <<"l", "i", "g", "h", "t", "n", "i", "n", "g">>, icon_key |-> "thunderstorm"],
       [keyword |-> <<"s", "t", "o", "r", "m">>, icon_key |-> "thunderstorm"],
       [keyword |-> <<"f", "o", "g">>, icon_key |-> "fog"],
       [keyword |-> <<"f", "o", "g", "g", "y">>, icon_key |-> "fog"],
       [keyword |-> <<"m", "i", "s", "t">>, icon_key |-> "fog"],
       [keyword |-> <<"m", "i", "s", "t", "y">>, icon_key |-> "fog"],
       [keyword |-> <<"h", "a", "z", "e">>, icon_key |-> "fog"],
       [keyword |-> <<"h", "a", "z", "y">>, icon_key |-> "fog"] >>

\* get_weather_icon: an exact match, else the first keyword the lowered
\* condition contains, else cloudy
get_weather_icon(condition) ==
    IF condition = <<>> THEN "clear"
    ELSE LET condition_lower == Strip(ToLower(condition))
             exact == { i \in 1..Len(CONDITION_MAPPINGS) :
                          CONDITION_MAPPINGS[i].keyword = condition_lower }
             partial == { i \in 1..Len(CONDITION_MAPPINGS) :
                            Contains(condition_lower, CONDITION_MAPPINGS[i].keyword) }
         IN  IF exact # {} THEN CONDITION_MAPPINGS[CHOOSE i \in exact : TRUE].icon_key
             ELSE IF partial # {}
             THEN CONDITION_MAPPINGS[CHOOSE i \in partial : \A j \in partial : i <= j].icon_key
             ELSE "cloudy"

\* the descriptions fetch_weather produces
Descriptions ==
    { DescriptionTexts[i].description : i \in 1..Len(DescriptionTexts) } \cup {Unknown}

\* a description as written, in upper case, in lower case, and padded
Spellings(description) ==
    { description, ToUpper(description), ToLower(description),
      <<" ">> \o description \o <<" ">> }

GetWeatherIcon(description, condition) ==
    /\ op = NoOp
    /\ op' = [name |-> "get_weather_icon", description |-> description,
              condition |-> condition]
    /\ out' = get_weather_icon(condition)
    /\ UNCHANGED <<rotVars, renderVars>>

----------------------------------------------------------------------------
(* The e-ink reduction (artwork.py, optimize_for_eink) *)

\* int(num / den) as the float arithmetic computes it: the exact truncation,
\* or one less when the exact quotient is an integer and the rounded float
\* falls just below it
FloatTrunc(num, den, rounding) ==
    IF num % den = 0 /\ rounding = "below" THEN (num \div den) - 1 ELSE num \div den

\* mutant: the image is scaled to cover the target instead of fitting in it
FitSizeCover(src_w, src_h, width, height, rounding) ==
    IF src_w * height > width * src_h
    THEN [new_width |-> FloatTrunc(height * src_w, src_h, rounding),
          new_height |-> height]
    ELSE [new_width |-> width,
          new_height |-> FloatTrunc(width * src_h, src_w, rounding)]

\* "Calculate scaling to fit within bounds while maintaining aspect ratio"
FitSize(src_w, src_h, width, height, rounding) ==
    IF src_w * height > width * src_h
    THEN [new_width |-> width,
          new_height |-> FloatTrunc(width * src_h, src_w, rounding)]
    ELSE [new_width |-> FloatTrunc(height * src_w, src_h, rounding),
          new_height |-> height]

\* the steps of the pipeline, in order
EinkSteps ==
    <<"open", "convert_rgb", "resize", "paste", "filter", "enhance", "quantize", "save">>

\* mutant: Image.open is called before the try block
InsideTryAfterOpen(step) == step # "open"

\* the try block covers every step from Image.open to img.save
InsideTry(step) == \E i \in 1..Len(EinkSteps) : EinkSteps[i] = step

\* the canvas after paste and UnsharpMask: width * height 8-bit pixels in
\* row-major order, following one of three contents
Canvas(content, width, height) ==
    [i \in 1..(width * height) |->
        IF content = "flat" THEN 255
        ELSE IF content = "gradient" THEN ((i - 1) * 13) % 256
        ELSE IF i % 2 = 0 THEN 0 ELSE 255]

RECURSIVE SeqSum(_)
SeqSum(seq) == IF seq = <<>> THEN 0 ELSE Head(seq) + SeqSum(Tail(seq))

\* ImageEnhance.Contrast(img).enhance(factor), factor = boost4 / 4: blend of
\* the mean-filled image and the image, clipped to 0..255 and truncated
Enhance(pixels, boost4) ==
    LET mean == (2 * SeqSum(pixels) + Len(pixels)) \div (2 * Len(pixels))
    IN  [i \in 1..Len(pixels) |->
            LET temp4 == 4 * mean + boost4 * (pixels[i] - mean)
            IN  IF temp4 <= 0 THEN 0 ELSE IF temp4 >= 4 * 255 THEN 255 ELSE temp4 \div 4]

\* the pixel values of an image in increasing order
RECURSIVE SortedValues(_)
SortedValues(values) ==
    IF values = {} THEN <<>>
    ELSE LET least == CHOOSE v \in values : \A u \in values : v <= u
         IN  <<least>> \o SortedValues(values \ {least})

Population(pixels, box) == Cardinality({ i \in 1..Len(pixels) : pixels[i] \in box })

\* median cut: split the most populated box that holds two or more values at
\* its median value, until there are `colors` boxes or none can be split
RECURSIVE MedianCut(_, _, _)
MedianCut(pixels, boxes, colors) ==
    LET splittable == { b \in boxes : Cardinality(b) > 1 }
    IN  IF Cardinality(boxes) >= colors \/ splittable = {} THEN boxes
        ELSE LET box == CHOOSE b \in splittable :
                            \A c \in splittable :
                                \/ Population(pixels, b) > Population(pixels, c)
                                \/ /\ Population(pixels, b) = Population(pixels, c)
                                   /\ SortedValues(b)[1] <= SortedValues(c)[1]
                 sorted == SortedValues(box)
                 lower == { sorted[i] : i \in 1..(Len(sorted) \div 2) }
             IN  MedianCut(pixels, (boxes \ {box}) \cup {lower, box \ lower}, colors)

\* the palette entry of a box: the mean of its pixels
BoxColour(pixels, box) ==
    LET inside == SelectSeq(pixels, LAMBDA v : v \in box)
    IN  SeqSum(inside) \div Len(inside)

\* convert('L') of a palette entry (v, v, v)
ConvertL(v) == (v * 19595 + v * 38470 + v * 7471 + 32768) \div 65536

\* mutant: quantize ignores the colors argument
QuantizeAllValues(pixels, colors) == pixels

\* img.quantize(colors, MEDIANCUT).convert('L')
Quantize(pixels, colors) ==
    LET boxes == MedianCut(pixels, { { pixels[i] : i \in 1..Len(pixels) } }, colors)
    IN  [i \in 1..Len(pixels) |->
            ConvertL(BoxColour(pixels, CHOOSE b \in boxes : pixels[i] \in b))]

\* the step at which the pipeline raises ("" if none): the injected failure,
\* resize for an empty size, quantize for a colour count outside 1..256
FailingStep(inp) ==
    LET fit == FitSize(inp.src_w, inp.src_h, inp.width, inp.height, inp.rounding)
        fails(step) ==
            \/ inp.fail_at = step
            \/ step = "resize" /\ (fit.new_width <= 0 \/ fit.new_height <= 0)
            \/ step = "quantize" /\ inp.dither
                  /\ (inp.grayscale_levels < 1 \/ inp.grayscale_levels > 256)
        runs(step) ==
            /\ step = "convert_rgb" => inp.mode \notin {"RGB", "L"}
            /\ step = "enhance" => inp.boost4 # 4
            /\ step = "quantize" => inp.dither
        failing == { i \in 1..Len(EinkSteps) : runs(EinkSteps[i]) /\ fails(EinkSteps[i]) }
    IN  IF failing = {} THEN ""
        ELSE EinkSteps[CHOOSE i \in failing : \A j \in failing : i <= j]

NoImage == [size |-> <<0, 0>>, pixels |-> <<>>]

optimize_for_eink(inp) ==
    LET fit == FitSize(inp.src_w, inp.src_h, inp.width, inp.height, inp.rounding)
        failed == FailingStep(inp)
        geometry == [new_width |-> fit.new_width, new_height |-> fit.new_height,
                     x |-> (inp.width - fit.new_width) \div 2,
                     y |-> (inp.height - fit.new_height) \div 2]
        enhanced == IF inp.boost4 # 4
                    THEN Enhance(Canvas(inp.content, inp.width, inp.height), inp.boost4)
                    ELSE Canvas(inp.content, inp.width, inp.height)
        final == IF inp.dither THEN Quantize(enhanced, inp.grayscale_levels) ELSE enhanced
    IN  IF ~inp.has_pil
        THEN [returned |-> "False", failed |-> "", geometry |-> geometry, saved |-> NoImage]
        ELSE IF failed # "" /\ ~InsideTry(failed)
        THEN [returned |-> "raised", failed |-> failed, geometry |-> geometry, saved |-> NoImage]
        ELSE IF failed # ""
        THEN [returned |-> "False", failed |-> failed, geometry |-> geometry, saved |-> NoImage]
        ELSE [returned |-> "True", failed |-> "", geometry |-> geometry,
              saved |-> [size |-> <<inp.width, inp.height>>, pixels |-> final]]

\* largest side of the source and target sizes
MaxSide == 5

DefaultEinkInput ==
    [has_pil |-> TRUE, mode |-> "RGB", src_w |-> 8, src_h |-> 6, width |-> 5, height |-> 4,
     rounding |-> "exact", content |-> "gradient", boost4 |-> 5, dither |-> TRUE,
     grayscale_levels |-> 16, fail_at |-> ""]

\* every source and target size up to MaxSide, with both float roundings
GeometryInputs ==
    { [DefaultEinkInput EXCEPT !.src_w = sw, !.src_h = sh, !.width = w, !.height = h,
                               !.rounding = r, !.content = "flat"] :
        sw \in 1..MaxSide, sh \in 1..MaxSide, w \in 1..MaxSide, h \in 1..MaxSide,
        r \in {"exact", "below"} }

\* every content, contrast, dither and colour count on a 5 x 4 target
ContentInputs ==
    { [DefaultEinkInput EXCEPT !.content = c, !.boost4 = b, !.dither = d,
                               !.grayscale_levels = n, !.mode = m] :
        c \in {"flat", "gradient", "checker"}, b \in {4, 5, 8}, d \in BOOLEAN,
        n \in {0 - 1, 0, 1, 2, 3, 16, 256, 257}, m \in {"RGB", "L", "RGBA"} }

\* every step failing, with and without PIL
FailureInputs ==
    { [DefaultEinkInput EXCEPT !.fail_at = EinkSteps[i], !.has_pil = pil, !.mode = m] :
        i \in 1..Len(EinkSteps), pil \in BOOLEAN, m \in {"RGB", "P"} }

OptimizeForEink(inp) ==
    /\ op = NoOp
    /\ op' = [name |-> "optimize_for_eink", inp |-> inp]
    /\ out' = optimize_for_eink(inp)
    /\ UNCHANGED <<rotVars, renderVars>>

----------------------------------------------------------------------------
(* Two select_artwork invocations running concurrently on one state file *)

Invocations == {1, 2}

\* the collection sizes of the concurrent runs
CollectionSizes == {1, 2, 3}

\* no concurrent run
NoRace ==
    [pc |-> [p \in Invocations |-> "idle"], cur |-> [p \in Invocations |-> DefaultCursor],
     rotation_interval |-> 1, n |-> 1, initial |-> Missing, overlapped |-> FALSE]

\* mutant: the record on disk is not read
ReadRecordIgnored(file) == DefaultCursor

\* "Load or initialize state" with a readable file system
ReadRecord(file) == LoadState(file, [state_file |-> TRUE, read |-> "ok", write |-> "ok"])

\* f.write at offset 0 of a freshly opened descriptor: the text replaces the
\* start of whatever the file holds by then
WriteAtStart(content, text) == text \o SubSeq(content, Len(text) + 1, Len(content))

\* lines 89-104: the invocation reads the record and advances it in memory
RaceLoad(p) ==
    /\ race.pc[p] = "idle"
    /\ race' = [race EXCEPT
                  !.pc[p] = "loaded",
                  !.cur[p] = Advance(ReadRecord(stateFile), race.rotation_interval, race.n),
                  !.overlapped = @ \/ \E q \in Invocations \ {p} :
                                         race.pc[q] \in {"loaded", "opened"}]
    /\ UNCHANGED <<stateFile, artworkDir, call, mem, ret, tracking, hist, renderVars, callVars>>

\* line 109: open(state_file, 'w') creates or truncates the file
RaceOpen(p) ==
    /\ race.pc[p] = "loaded"
    /\ race' = [race EXCEPT !.pc[p] = "opened"]
    /\ stateFile' = [exists |-> TRUE, content |-> <<>>]
    /\ UNCHANGED <<artworkDir, call, mem, ret, tracking, hist, renderVars, callVars>>

\* line 110: the record is written through the invocation's own descriptor
RaceWrite(p) ==
    /\ race.pc[p] = "opened"
    /\ race' = [race EXCEPT !.pc[p] = "done"]
    /\ stateFile' = [exists |-> TRUE,
                     content |-> WriteAtStart(stateFile.content, FormatState(race.cur[p]))]
    /\ UNCHANGED <<artworkDir, call, mem, ret, tracking, hist, renderVars, callVars>>

\* the records a state file holds after earlier calls
Records(rotation_interval, n) ==
    { [exists |-> TRUE, content |-> FormatState([index |-> i, count |-> c])] :
        i \in 0..(n - 1), c \in 0..(rotation_interval - 1) }

----------------------------------------------------------------------------
(* Specifications *)

\* the rotation cursor, with no render in progress
RotationInit ==
    /\ race = NoRace
    /\ stateFile \in {Missing} \cup {[exists |-> TRUE, content |-> t] : t \in Contents}
    /\ artworkDir \in DirStates
    /\ call = NoCall
    /\ mem = DefaultCursor
    /\ ret = NoSelection
    /\ tracking = ~stateFile.exists
    /\ hist = <<>>

\* the renderer before its construction
RenderIdle ==
    /\ rpc = "init"
    /\ config = load_config([state |-> "missing", mapping |-> DefaultMapping])
    /\ fonts = load_fonts(FontEnv({}))
    /\ weather = ReturnNone
    /\ reminders = <<>>
    /\ drawn = <<>>
    /\ saved = 0
    /\ outcome = NoOutcome

CallIdle == op = NoOp /\ out = <<>>

RotationIdle ==
    /\ race = NoRace
    /\ stateFile = Missing
    /\ artworkDir = NoDirectory
    /\ call = NoCall
    /\ mem = DefaultCursor
    /\ ret = NoSelection
    /\ tracking = FALSE
    /\ hist = <<>>

Init == RotationInit /\ RenderIdle /\ layout = SourceLayout /\ CallIdle

Next ==
    \/ /\ \E c \in CategoryArgs, k \in Intervals, io \in IOOutcomes : SelectArtwork(c, k, io)
       /\ UNCHANGED <<renderVars, callVars, race>>
    \/ /\ ChangeArtwork
       /\ UNCHANGED <<renderVars, callVars, race>>

Spec == Init /\ [][Next]_vars

\* one render of the dashboard, from the construction of the renderer
RenderInit == RotationIdle /\ RenderIdle /\ layout = SourceLayout /\ CallIdle

RenderNext ==
    /\ UNCHANGED <<rotVars, callVars>>
    /\ \/ \E f \in ConfigFiles, a \in FontEnvironments : Construct(f, a)
       \/ \E r \in Responses : FetchWeather(r)
       \/ \E f \in ReminderFiles : LoadReminders(f)
       \/ \E now \in Clocks : RenderTimeZone(now)
       \/ RenderWeatherZone
       \/ RenderCalendarZone
       \/ RenderRemindersZone
       \/ \E writable \in BOOLEAN : SaveImage(writable)

RenderSpec == RenderInit /\ [][RenderNext]_vars

\* layout constants edited so that the zones no longer fit the canvas
OversizedLayouts ==
    { [SourceLayout EXCEPT !.TIME_ZONE_HEIGHT = @ + 100],
      [SourceLayout EXCEPT !.REMINDERS_ZONE_HEIGHT = @ + 1],
      [SourceLayout EXCEPT !.HEIGHT = @ - 400] }

OversizedInit == RotationIdle /\ RenderIdle /\ layout \in OversizedLayouts /\ CallIdle

OversizedSpec == OversizedInit /\ [][RenderNext]_vars

\* direct calls of the calendar grid functions
CalendarInit == RotationIdle /\ RenderIdle /\ layout = SourceLayout /\ CallIdle

CalendarNext ==
    /\ op = NoOp
    /\ \/ \E year \in Years, month \in Months : GetMonthGrid(year, month)
       \/ \E year \in Years, month \in Months, today \in Todays : RenderCalendar(year, month, today)

CalendarSpec == CalendarInit /\ [][CalendarNext]_vars

\* direct calls of the block digit renderer
DigitsInit == RotationIdle /\ RenderIdle /\ layout = SourceLayout /\ CallIdle

DigitsNext ==
    /\ op = NoOp
    /\ \/ \E hour \in 0..23, minute \in 0..59, twelve_hour \in BOOLEAN :
              RenderTime(hour, minute, twelve_hour)
       \/ \E digit \in DigitArgs, x \in Origins, y \in Origins : RenderDigit(digit, x, y)

DigitsSpec == DigitsInit /\ [][DigitsNext]_vars

\* direct calls of the reminders loader
RemindersInit == RotationIdle /\ RenderIdle /\ layout = SourceLayout /\ CallIdle

RemindersNext ==
    /\ op = NoOp
    /\ \/ \E enabled \in BOOLEAN, max_items \in MaxItemsValues, lines \in LineSeqs(MaxLines) :
              LoadRemindersCall(enabled, max_items, [exists |-> TRUE, lines |-> lines])
       \/ \E enabled \in BOOLEAN, max_items \in MaxItemsValues :
              LoadRemindersCall(enabled, max_items, [exists |-> FALSE, lines |-> <<>>])

RemindersSpec == RemindersInit /\ [][RemindersNext]_vars

\* direct calls of the zone renderers
ZonesInit == RotationIdle /\ RenderIdle /\ layout = SourceLayout /\ CallIdle

ZonesNext ==
    /\ op = NoOp
    /\ \/ \E hour \in 0..23, minute \in 0..59, format_24h \in BOOLEAN :
              RenderTimeZoneCall(hour, minute, format_24h)
       \/ \E year \in Years, month \in Months, today \in Todays :
              RenderCalendarZoneCall(year, month, today)
       \/ \E max_items \in MaxItemsValues, lines \in RowFiles :
              RenderRemindersZoneCall(max_items, lines)

ZonesSpec == ZonesInit /\ [][ZonesNext]_vars

\* direct calls of the weather icon lookup
IconsInit == RotationIdle /\ RenderIdle /\ layout = SourceLayout /\ CallIdle

IconsNext ==
    /\ op = NoOp
    /\ \E description \in Descriptions : \E condition \in Spellings(description) :
           GetWeatherIcon(description, condition)

IconsSpec == IconsInit /\ [][IconsNext]_vars

\* direct calls of the font loader
FontsInit == RotationIdle /\ RenderIdle /\ layout = SourceLayout /\ CallIdle

FontsNext ==
    /\ op = NoOp
    /\ \E env \in [FontStyles -> CandidateSeqs(MaxCandidates)] : LoadFontsCall(env)

FontsSpec == FontsInit /\ [][FontsNext]_vars

\* direct calls of the e-ink reduction
EinkInit == RotationIdle /\ RenderIdle /\ layout = SourceLayout /\ CallIdle

EinkNext ==
    /\ op = NoOp
    /\ \/ \E inp \in GeometryInputs : OptimizeForEink(inp)
       \/ \E inp \in ContentInputs : OptimizeForEink(inp)
       \/ \E inp \in FailureInputs : OptimizeForEink(inp)

EinkSpec == EinkInit /\ [][EinkNext]_vars

\* records left by earlier calls, with another collection or interval too
EarlierRecords ==
    Records(2, 2) \cup { [exists |-> TRUE, content |-> FormatState([index |-> 2, count |-> 2])] }

\* repeated serial calls with a fixed collection and a fixed interval >= 1,
\* from no state file or from a record left by earlier calls
RoundRobinInit ==
    /\ RenderIdle /\ layout = SourceLayout /\ CallIdle
    /\ race = NoRace
    /\ stateFile \in {Missing} \cup EarlierRecords
    /\ artworkDir \in { d \in DirStates : get_artwork_files(d, <<>>) # <<>> }
    /\ \E k \in 1..MaxInterval : call = [NoCall EXCEPT !.rotation_interval = k]
    /\ mem = DefaultCursor
    /\ ret = NoSelection
    /\ tracking = FALSE
    /\ hist = <<>>

RoundRobinNext == RepeatedSelect

RoundRobinSpec == RoundRobinInit /\ [][RoundRobinNext]_vars /\ WF_vars(RoundRobinNext)

\* two invocations with the same arguments, started in any order and
\* interleaved step by step
RaceInit ==
    /\ RenderIdle /\ layout = SourceLayout /\ CallIdle
    /\ artworkDir = NoDirectory
    /\ call = NoCall
    /\ mem = DefaultCursor
    /\ ret = NoSelection
    /\ tracking = FALSE
    /\ hist = <<>>
    /\ \E k \in 1..MaxInterval, n \in CollectionSizes :
          /\ stateFile \in {Missing} \cup Records(k, n)
          /\ race = [NoRace EXCEPT !.rotation_interval = k, !.n = n, !.initial = stateFile]

RaceNext ==
    \/ \E p \in Invocations : RaceLoad(p)
    \/ \E p \in Invocations : RaceOpen(p)
    \/ \E p \in Invocations : RaceWrite(p)

RaceSpec == RaceInit /\ [][RaceNext]_vars

----------------------------------------------------------------------------
(* Properties of the rotation cursor *)

OkIO == [state_file |-> TRUE, read |-> "ok", write |-> "ok"]

\* the step just taken is a select_artwork call on a non-empty collection
\* (ChangeArtwork leaves call.made FALSE)
SelectedStep == call'.made /\ call'.files # <<>>

\* C1: from a missing state file, with rotation_interval = 3 and five items, the
\* i-th of four consecutive calls selects index [0,0,0,1][i], and the written
\* call_count is 0 exactly on every 3rd call.
C1_CleanStartSequence ==
    tracking =>
        \A i \in 1..Len(hist) :
            /\ hist[i].index = (i - 1) \div 3
            /\ (hist[i].count = 0) <=> (i % 3 = 0)

\* a record that makes the load step fail: the first field is no integer, or
\* there is a second field and it is no integer
Malformed(content) ==
    LET parts == Split(Strip(content), ",")
    IN  \/ ~IntOk(parts[1])
        \/ Len(parts) > 1 /\ ~IntOk(parts[2])

\* C2: a call that reads a malformed record returns the same item and computes
\* (and persists) the same (index, count) as a call that finds no state file.
C2_MalformedActsAsMissing ==
    [][(/\ SelectedStep
        /\ call'.io.state_file /\ call'.io.read = "ok"
        /\ stateFile.exists /\ Malformed(stateFile.content))
       => LET m == SelectResult(Missing, call'.files, call'.rotation_interval, call'.io)
          IN  /\ ret' = m.ret
              /\ mem' = m.mem
              /\ call'.io.write = "ok" => stateFile' = m.file]_vars

\* the record the load step is to yield for a file content: the defaults for
\* a malformed record, otherwise the first field and the second field or 0
TolerantLoad(content) ==
    LET parts == Split(Strip(content), ",")
    IN  IF Malformed(content) THEN DefaultCursor
        ELSE [index |-> IntVal(parts[1]),
              count |-> IF Len(parts) > 1 THEN IntVal(parts[2]) ELSE 0]

\* C24: a call that reads its state file proceeds from (index, count) for
\* "<index>,<count>", from (index, 0) for "<index>" alone, ignores fields
\* after the second, and proceeds from the defaults (0, 0) when the first or
\* the second field is not an integer; it never raises
C24_TolerantParser ==
    [][(/\ SelectedStep
        /\ call'.io.state_file /\ call'.io.read = "ok"
        /\ stateFile.exists)
       => /\ mem' = Advance(TolerantLoad(stateFile.content), call'.rotation_interval,
                            Len(call'.files))
          /\ ~ret'.raised]_vars

\* the call_count of the record now in the state file
PersistedCount == ParseState(stateFile.content).count

\* C3 as stated: after every call on a non-empty collection the persisted
\* call_count is < rotation_interval and the picked index is in 0..n-1.
C3_CountBelowInterval ==
    (call.made /\ call.files # <<>> /\ call.io.state_file) =>
        /\ stateFile.exists => PersistedCount < call.rotation_interval
        /\ ret.index \in 0..(Len(call.files) - 1)

EffectiveInterval(k) == IF k >= 1 THEN k ELSE 1

\* C3 amended: after every call on a non-empty collection the call_count the
\* call computed is < max(rotation_interval, 1), it is the persisted one
\* whenever the write succeeded, and the returned item is the one at an index
\* in 0..n-1.
C3_CountBelowEffectiveInterval ==
    (call.made /\ call.files # <<>>) =>
        /\ mem.count < EffectiveInterval(call.rotation_interval)
        /\ (call.io.state_file /\ call.io.write = "ok") =>
               /\ stateFile.exists
               /\ PersistedCount = mem.count
               /\ PersistedCount < EffectiveInterval(call.rotation_interval)
        /\ ret.index \in 0..(Len(call.files) - 1)
        /\ ret.item = <<call.files[ret.index + 1]>>

\* C3 witness: a record whose index is beyond the present collection was
\* loaded, kept (no rotation) and written back; the pick is still in range
C3_Witness ==
    /\ call.made /\ Len(call.files) = 2
    /\ call.io = OkIO
    /\ call.rotation_interval = 3
    /\ mem.index >= 2 /\ mem.count = 1
    /\ stateFile.exists /\ PersistedCount = 1
    /\ ret.index = 0

EmptyCollection(dir, categories) ==
    \/ ~dir.exists
    \/ \A e \in dir.entries :
           (categories = <<>> \/ \E i \in 1..Len(categories) : categories[i] = e.cat)
               => e.suffix \notin {".png", ".PNG", ".jpg", ".JPG", ".jpeg", ".gif", ".bmp"}

\* C5: when the collection is empty, select_artwork returns None and does not
\* raise, for every rotation_interval and state-file content.
C5_EmptyCollectionNoSelection ==
    (call.made /\ EmptyCollection(artworkDir, call.categories)) =>
        /\ ret.item = <<>>
        /\ ~ret.raised

\* C5 witness: a call found a directory holding only a non-image file, with a
\* state file in place and a rotation_interval <= 0
C5_Witness ==
    /\ call.made
    /\ artworkDir.exists /\ artworkDir.entries # {}
    /\ EmptyCollection(artworkDir, call.categories)
    /\ stateFile.exists /\ stateFile.content # <<>>
    /\ call.rotation_interval <= 0
    /\ ret.item = <<>>

\* the step just taken is a call whose state-file write failed
FailedWriteStep ==
    SelectedStep /\ call'.io.state_file /\ call'.io.write # "ok"

\* the value the same call returns when its write succeeds
ReturnIfWritten ==
    SelectResult(stateFile, call'.files, call'.rotation_interval,
                 [call'.io EXCEPT !.write = "ok"]).ret

\* C6 as stated: a failed write does not raise, the call returns the item at
\* the advanced in-memory index, and the stored record is what it was before.
C6_FailedWriteKeepsRecord ==
    [][FailedWriteStep
       => /\ ~ret'.raised
          /\ ret' = ReturnIfWritten
          /\ LoadState(stateFile', OkIO) = LoadState(stateFile, OkIO)]_vars

\* C6 amended: a failed write does not raise and the call returns the item at
\* the advanced in-memory index; the stored record is what it was before when
\* the open failed, and is empty (loaded as (0, 0) by the next call) when the
\* file was opened, hence truncated, before the write failed.
C6_FailedWriteKeepsOrTruncates ==
    [][FailedWriteStep
       => /\ ~ret'.raised
          /\ ret' = ReturnIfWritten
          /\ ret'.index = mem'.index % Len(call'.files)
          /\ call'.io.write = "open_fails" => stateFile' = stateFile
          /\ call'.io.write = "write_fails" =>
                 /\ stateFile' = [exists |-> TRUE, content |-> <<>>]
                 /\ LoadState(stateFile', OkIO) = DefaultCursor]_vars

\* C6 witness: a call rotated to index 1, its write failed after the open, the
\* item at index 1 was returned and the state file is left empty
C6_Witness ==
    /\ call.made /\ call.files # <<>>
    /\ call.io.write = "write_fails"
    /\ mem.index = 1 /\ ret.index = 1
    /\ ret.item = <<call.files[2]>>
    /\ stateFile = [exists |-> TRUE, content |-> <<>>]

----------------------------------------------------------------------------
(* Properties of the compositor *)

\* C7: for every outcome of the collaborators the claim lists (weather data or
\* None, reminders file present or missing, fonts present or missing, config
\* present or missing) render does not raise: the only renders that end in an
\* exception are those whose fetch raised, whose config file was empty, whose
\* timezone name was unknown, or whose output file could not be written
C7_RenderAlwaysCompletes ==
    rpc = "raised" =>
        \/ outcome.at = "fetch_weather"
        \/ config.kind = "none"
        \/ ~config.m.time.tz_ok
        \/ outcome.error = "OSError"

\* C8: fetch_weather never raises: whatever urlopen and json.loads gave, and
\* whatever forecast_hours is, the caller gets a result dictionary or None
C8_FetchWeatherNeverRaises == weather.status # "raised"

Inside(r, lay) ==
    /\ r.x >= 0
    /\ r.y >= 0
    /\ r.x + r.width <= lay.WIDTH
    /\ r.y + r.height <= lay.HEIGHT

IntersectionArea(a, b) ==
    LET w == Min(a.x + a.width, b.x + b.width) - Max(a.x, b.x)
        h == Min(a.y + a.height, b.y + b.height) - Max(a.y, b.y)
    IN  IF w > 0 /\ h > 0 THEN w * h ELSE 0

\* C9: the rectangles of the zones drawn so far lie inside the canvas and have
\* pairwise intersection area 0, the three stacked heights are at most
\* HEIGHT - 2*MARGIN and the two middle widths at most WIDTH - 2*MARGIN
C9_ZonesFitAndDisjoint ==
    /\ \A i \in 1..Len(drawn) : Inside(drawn[i].rect, layout)
    /\ \A i \in 1..Len(drawn) : \A j \in (i + 1)..Len(drawn) :
           IntersectionArea(drawn[i].rect, drawn[j].rect) = 0
    /\ layout.TIME_ZONE_HEIGHT + layout.MIDDLE_ZONE_HEIGHT + layout.REMINDERS_ZONE_HEIGHT
           <= layout.HEIGHT - 2 * layout.MARGIN
    /\ layout.WEATHER_ZONE_WIDTH + CALENDAR_ZONE_WIDTH(layout)
           <= layout.WIDTH - 2 * layout.MARGIN

\* a render that drew the time, weather, calendar and reminders zones and saved
C9_Witness ==
    /\ rpc = "done"
    /\ [i \in 1..Len(drawn) |-> drawn[i].zone] = <<"time", "weather", "calendar", "reminders">>

Overflows(lay) ==
    lay.TIME_ZONE_HEIGHT + lay.MIDDLE_ZONE_HEIGHT + lay.REMINDERS_ZONE_HEIGHT + 2 * lay.MARGIN
        > lay.HEIGHT

\* C10: with layout constants whose zone heights plus margins exceed the canvas
\* height, the renderer gets no further than its construction: nothing is
\* drawn and nothing is saved
C10_OversizedLayoutFailsAtStartup ==
    Overflows(layout) => /\ rpc \in {"init", "raised"}
                         /\ drawn = <<>>
                         /\ saved = 0

----------------------------------------------------------------------------
(* Properties of the render pass *)

ZoneOrder == <<"time", "weather", "calendar", "reminders">>

DrawnZones == [i \in 1..Len(drawn) |-> drawn[i].zone]

\* C21: one render is a single linear pass: the zones drawn so far are a
\* prefix of time, weather, calendar, reminders; the first zone is drawn only
\* after the weather fetch and the reminders load have finished, and neither
\* result changes afterwards; the canvas is saved at most once, only after
\* all four zones, exactly once in a render that returns True, and nothing is
\* drawn once it is saved
C21_SingleLinearPass ==
    /\ [](/\ DrawnZones = SubSeq(ZoneOrder, 1, Len(drawn))
          /\ drawn # <<>> => rpc \notin {"init", "ready", "fetched"}
          /\ saved <= 1
          /\ saved = 1 => DrawnZones = ZoneOrder
          /\ rpc = "done" => saved = 1)
    /\ [][/\ drawn # <<>> => weather' = weather /\ reminders' = reminders
          /\ saved >= 1 => drawn' = drawn
          /\ saved' # saved => saved' = saved + 1 /\ drawn' = drawn]_vars

\* a render that fetched weather data and loaded reminders, drew the four
\* zones and saved
C21_Witness ==
    /\ rpc = "done"
    /\ saved = 1
    /\ DrawnZones = ZoneOrder
    /\ reminders # <<>>
    /\ config.m.weather.present

----------------------------------------------------------------------------
(* Properties of the calendar grid *)

\* days in a month of the proleptic Gregorian calendar
DaysInMonth(year, month) ==
    IF month = 2
    THEN (IF year % 400 = 0 \/ (year % 4 = 0 /\ year % 100 # 0) THEN 29 ELSE 28)
    ELSE IF month \in {4, 6, 9, 11} THEN 30 ELSE 31

\* weekday of the 1st with Sunday = 0, by Zeller's congruence
SundayBasedWeekdayOfFirst(year, month) ==
    LET m == IF month < 3 THEN month + 12 ELSE month
        y == IF month < 3 THEN year - 1 ELSE year
        k == y % 100
        j == y \div 100
        h == (1 + ((13 * (m + 1)) \div 5) + k + (k \div 4) + (j \div 4) + 5 * j) % 7
    IN  (h + 6) % 7

\* the non-empty cells of a grid in row-major order, as <<row, column, day>>
FilledCells(grid) ==
    LET flat == [i \in 1..(7 * Len(grid)) |->
                    <<((i - 1) \div 7) + 1, ((i - 1) % 7) + 1,
                      grid[((i - 1) \div 7) + 1][((i - 1) % 7) + 1]>>]
    IN  SelectSeq(flat, LAMBDA t : ~t[3].empty)

\* C11: get_month_grid returns 6 rows of 7 cells; the non-empty cells are
\* exactly days_in_month many and hold 1..days_in_month in row-major order;
\* day 1 is in the column of the weekday of the 1st, Sunday = 0
C11_MonthGridShape ==
    op.name = "get_month_grid" =>
        LET filled == FilledCells(out)
        IN  /\ Len(out) = 6
            /\ \A w \in 1..Len(out) : Len(out[w]) = 7
            /\ Len(filled) = DaysInMonth(op.year, op.month)
            /\ \A i \in 1..Len(filled) : filled[i][3].day = i
            /\ filled[1][2] - 1 = SundayBasedWeekdayOfFirst(op.year, op.month)

\* a four-week month (February 2026 starts on a Sunday) padded to six rows
C11_Witness ==
    /\ op.name = "get_month_grid"
    /\ op.year = 2026 /\ op.month = 2
    /\ Len(out) = 6
    /\ \A c \in 1..7 : out[5][c].empty

\* the drawings of a render_calendar call that carry the inverted block
InvertedCells == SelectSeq(out, LAMBDA c : c.rectangle)

\* C12: render_calendar draws the inverted block on exactly one cell, the cell
\* of today, when 1 <= today <= days_in_month, and on none otherwise; every
\* other non-empty cell is drawn in the normal colour
C12_AtMostOneTodayCell ==
    op.name = "render_calendar" =>
        /\ Len(out) = DaysInMonth(op.year, op.month)
        /\ Len(InvertedCells) =
               (IF 1 <= op.today /\ op.today <= DaysInMonth(op.year, op.month) THEN 1 ELSE 0)
        /\ \A i \in 1..Len(out) :
               /\ out[i].rectangle => out[i].day = op.today /\ out[i].text_fill = "bg"
               /\ ~out[i].rectangle => out[i].text_fill = "fill"

\* February of a leap year with today = 29: the cursor is on the last cell
C12_Witness ==
    /\ op.name = "render_calendar"
    /\ op.month = 2 /\ op.today = 29
    /\ Len(InvertedCells) = 1
    /\ out[Len(out)].rectangle

----------------------------------------------------------------------------
(* Properties of the block digits *)

\* the characters of the digit glyphs drawn left of (side = 1) or right of
\* (side = 2) the colon
DrawnDigits(side) ==
    LET colon == CHOOSE i \in 1..Len(out.glyphs) : out.glyphs[i].kind = "colon"
        part == IF side = 1 THEN SubSeq(out.glyphs, 1, colon - 1)
                ELSE SubSeq(out.glyphs, colon + 1, Len(out.glyphs))
    IN  [i \in 1..Len(part) |-> part[i].glyph]

\* C13: for hour 0..23 and minute 0..59, in 12-hour mode the hour is drawn as
\* 12 for hours 0 and 12 and as hour mod 12 otherwise, two digits in 01..12,
\* with AM iff hour < 12 and PM otherwise; in 24-hour mode the hour is drawn
\* unchanged with an empty meridiem; the minute is always drawn as two digits
C13_TwelveHourClock ==
    op.name = "render_time" =>
        /\ ~out.raised
        /\ Len(DrawnDigits(1)) = 2 /\ Len(DrawnDigits(2)) = 2
        /\ \A i \in 1..2 : IsDigit(DrawnDigits(1)[i]) /\ IsDigit(DrawnDigits(2)[i])
        /\ DigitsValue(DrawnDigits(2), 0) = op.minute
        /\ op.twelve_hour =>
               /\ DigitsValue(DrawnDigits(1), 0) =
                      (IF op.hour \in {0, 12} THEN 12 ELSE op.hour % 12)
               /\ DigitsValue(DrawnDigits(1), 0) \in 1..12
               /\ out.am_pm = (IF op.hour < 12 THEN "AM" ELSE "PM")
        /\ ~op.twelve_hour =>
               /\ DigitsValue(DrawnDigits(1), 0) = op.hour
               /\ out.am_pm = ""

\* midnight in 12-hour mode is drawn as 12:05 AM
C13_Witness ==
    /\ op.name = "render_time"
    /\ op.hour = 0 /\ op.minute = 5 /\ op.twelve_hour
    /\ DrawnDigits(1) = <<"1", "2">>
    /\ DrawnDigits(2) = <<"0", "5">>
    /\ out.am_pm = "AM"

\* C22: for each glyph '0'..'9' the pattern is 7 rows of 5 cells, every
\* rectangle render_digit fills lies in [x, x+80) x [y, y+100), and the cell
\* grid spans the full DIGIT_WIDTH x DIGIT_HEIGHT: its last cell ends on the
\* last column and the last row of the box; any other character raises
\* ValueError and draws nothing
C22_GlyphFillsDigitBox ==
    op.name = "render_digit" =>
        IF IsDigit(op.digit)
        THEN /\ out.raised = ""
             /\ Len(DIGIT_PATTERNS(op.digit)) = 7
             /\ \A r \in 1..7 : Len(DIGIT_PATTERNS(op.digit)[r]) = 5
             /\ \A q \in out.rects :
                    /\ op.x <= q.x0 /\ q.x0 <= q.x1 /\ q.x1 < op.x + 80
                    /\ op.y <= q.y0 /\ q.y0 <= q.y1 /\ q.y1 < op.y + 100
             /\ CellRect(GRID_ROWS - 1, GRID_COLS - 1, op.x, op.y).x1 = op.x + DIGIT_WIDTH - 1
             /\ CellRect(GRID_ROWS - 1, GRID_COLS - 1, op.x, op.y).y1 = op.y + DIGIT_HEIGHT - 1
        ELSE out.raised = "ValueError" /\ out.rects = {}

\* the pixels element i of the drawn time fills, and the width it is given
ElementRects(i) ==
    LET g == out.glyphs[i]
    IN  IF g.kind = "colon" THEN render_colon(g.x, g.y).rects
        ELSE render_digit(g.glyph, g.x, g.y).rects

ElementWidth(i) == IF out.glyphs[i].kind = "colon" THEN COLON_WIDTH ELSE DIGIT_WIDTH

----------------------------------------------------------------------------
(* Properties of the reminders loader *)

\* a line without its surrounding whitespace
Trimmed(line) == Strip(line)

Skipped(line) == Trimmed(line) = <<>> \/ Head(Trimmed(line)) = "#"

Marker(line) == IF Len(Trimmed(line)) >= 3 THEN SubSeq(Trimmed(line), 1, 3) ELSE <<>>

\* the classification of a line that is not skipped
Classified(line) ==
    LET marked == Marker(line) \in { <<"[", "x", "]">>, <<"[", "X", "]">>,
                                     <<"[", "!", "]">>, <<"[", " ", "]">> }
    IN  [status |-> IF Marker(line) \in { <<"[", "x", "]">>, <<"[", "X", "]">> }
                    THEN "done" ELSE "pending",
         priority |-> IF Marker(line) = <<"[", "!", "]">> THEN "high" ELSE "normal",
         text |-> IF marked THEN Strip(SubSeq(Trimmed(line), 4, Len(Trimmed(line))))
                  ELSE Trimmed(line)]

\* the classification of every line of a file that is not skipped, in file order
ClassifiedLines(lines) ==
    LET kept == SelectSeq(lines, LAMBDA l : ~Skipped(l))
    IN  [i \in 1..Len(kept) |-> Classified(kept[i])]

\* the entries a load may hold before it stops reading
Cap(max_items) == IF max_items < 1 THEN 1 ELSE max_items

\* C14: when reminders are enabled and the file is readable, the list returned
\* is the classification of the lines that are neither blank nor comments, in
\* file order (done/normal for [x] and [X], pending/high for [!],
\* pending/normal for [ ] or no marker, text without marker and surrounding
\* whitespace), up to the entry at which the load stops reading
C14_RemindersParsed ==
    (op.name = "_load_reminders" /\ op.enabled /\ op.file.exists) =>
        LET expected == ClassifiedLines(op.file.lines)
        IN  /\ Len(out) <= Len(expected)
            /\ out = SubSeq(expected, 1, Len(out))
            /\ Len(expected) <= Cap(op.max_items) => out = expected

\* a file with a comment, a done line and a high-priority line, read in full
C14_Witness ==
    /\ op.name = "_load_reminders" /\ op.enabled /\ op.file.exists
    /\ Len(op.file.lines) = 3
    /\ Skipped(op.file.lines[1])
    /\ Len(out) = 2
    /\ out[1].status = "done" /\ out[1].text = <<"a">>
    /\ out[2].priority = "high" /\ out[2].text = <<"b">>

\* C15: the list returned by _load_reminders has at most max_items entries
\* (none for a max_items of 0 or less), and is empty when reminders are
\* disabled or the file cannot be opened
C15_AtMostMaxItems ==
    op.name = "_load_reminders" =>
        /\ Len(out) <= Max(op.max_items, 0)
        /\ (~op.enabled \/ ~op.file.exists) => out = <<>>

----------------------------------------------------------------------------
(* Properties of the font loader *)

\* C16: whatever the candidate font files do, _load_fonts gives a handle for
\* each of the three styles at each of the eight size keys, so every key the
\* zone renderers look up yields a handle and never None; a style none of
\* whose candidates loads holds the built-in default font at all its keys
C16_FontsAlwaysUsable ==
    op.name = "_load_fonts" =>
        /\ DOMAIN out = FontStyles \X FontSizes
        /\ \A k \in UsedFontKeys : FontGet(out, k[1], k[2]) \in {"truetype", "default"}
        /\ \A style \in FontStyles :
               (\A i \in 1..Len(op.env[style]) : op.env[style][i] # "loads")
                   => \A sz \in FontSizes : out[<<style, sz>>] = "default"

\* the mono candidates raise after their first sizes were assigned, and the
\* mono keys still all hold the default font
C16_Witness ==
    /\ op.name = "_load_fonts"
    /\ op.env["mono"] = <<"fails_later", "fails_first">>
    /\ op.env["regular"][2] = "loads"
    /\ FontGet(out, "mono", "large") = "default"
    /\ FontGet(out, "mono", "16") = "default"
    /\ FontGet(out, "regular", "medium") = "truetype"

----------------------------------------------------------------------------
(* Properties of the zone renderers *)

PointInside(px, py, zone) ==
    /\ zone.x <= px /\ px < zone.x + zone.width
    /\ zone.y <= py /\ py < zone.y + zone.height

MarkerClass(line) ==
    IF Marker(line) \in { <<"[", "x", "]">>, <<"[", "X", "]">> } THEN <<"[", "x", "]">>
    ELSE IF Marker(line) = <<"[", "!", "]">> THEN <<"[", "!", "]">>
    ELSE <<"[", " ", "]">>

\* C29: no parsed reminder is both done and high priority; the checkbox drawn
\* for the k-th reminder is the marker class of the k-th line of the file
\* that is neither blank nor a comment ([X] drawn as [x], no marker as [ ]),
\* the drawn text starts with it, and no drawn text is longer than 35
\* characters
C29_MarkerRoundTrip ==
    op.name = "render_reminders_zone" =>
        LET kept == SelectSeq(op.lines, LAMBDA l : ~Skipped(l))
        IN  /\ \A k \in 1..Len(out.reminders) :
                   ~(out.reminders[k].status = "done" /\ out.reminders[k].priority = "high")
            /\ Len(out.rows) <= Len(kept)
            /\ Len(out.rows) = Min(Len(out.reminders), 6)
            /\ \A k \in 1..Len(out.rows) :
                   /\ out.rows[k].prefix = MarkerClass(kept[k])
                   /\ SubSeq(out.rows[k].text, 1, 3) = out.rows[k].prefix
                   /\ Len(out.rows[k].text) <= 35

\* a file whose [X] line is drawn as [x], whose [!] line with a long text is
\* drawn cut to 35 characters, and whose line '[x][!] ...' is drawn as done
C29_Witness ==
    /\ op.name = "render_reminders_zone"
    /\ \E k \in 1..Len(out.rows) :
           /\ out.rows[k].prefix = <<"[", "x", "]">>
           /\ out.reminders[k].text = <<"a">>
    /\ \E k \in 1..Len(out.rows) :
           /\ out.rows[k].prefix = <<"[", "!", "]">>
           /\ Len(out.reminders[k].text) = 40
           /\ Len(out.rows[k].text) = 35
           /\ SubSeq(out.rows[k].text, 33, 35) = <<".", ".", ".">>
    /\ \E k \in 1..Len(out.rows) :
           /\ out.rows[k].prefix = <<"[", "x", "]">>
           /\ Len(out.reminders[k].text) >= 3
           /\ SubSeq(out.reminders[k].text, 1, 3) = <<"[", "!", "]">>

----------------------------------------------------------------------------
(* Properties of the weather icon lookup *)

\* the icon of the weather family a description names
Family(description) ==
    LET d == ToLower(description)
    IN  IF Contains(d, <<"s", "n", "o", "w">>) THEN "snow"
        ELSE IF Contains(d, <<"t", "h", "u", "n", "d", "e", "r">>) THEN "thunderstorm"
        ELSE IF \/ Contains(d, <<"r", "a", "i", "n">>)
                \/ Contains(d, <<"d", "r", "i", "z", "z", "l", "e">>)
                \/ Contains(d, <<"s", "h", "o", "w", "e", "r", "s">>) THEN "rain"
        ELSE IF Contains(d, <<"f", "o", "g">>) THEN "fog"
        ELSE IF d \in { <<"m", "a", "i", "n", "l", "y", " ", "c", "l", "e", "a", "r">>,
                        <<"p", "a", "r", "t", "l", "y", " ", "c", "l", "o", "u", "d", "y">> }
             THEN "partly_cloudy"
        ELSE IF d = <<"c", "l", "e", "a", "r">> THEN "clear"
        ELSE "cloudy"

\* C30: for every description fetch_weather produces, in any letter case,
\* get_weather_icon returns a key of WEATHER_ICONS, the key of the
\* description's weather family (snow for every description naming snow), and
\* the same key as for the description as written
C30_IconMatchesFamily ==
    op.name = "get_weather_icon" =>
        /\ out \in WEATHER_ICONS
        /\ out = Family(op.description)
        /\ out = get_weather_icon(op.description)

----------------------------------------------------------------------------
(* Properties of the e-ink reduction *)

\* C17: whenever optimize_for_eink succeeds the saved image is exactly
\* width x height, the resized source is at most width wide and height high,
\* and both paste offsets are >= 0 and leave the resized source inside the target
C17_FitsInsideTarget ==
    (op.name = "optimize_for_eink" /\ out.returned = "True") =>
        /\ out.saved.size = <<op.inp.width, op.inp.height>>
        /\ Len(out.saved.pixels) = op.inp.width * op.inp.height
        /\ out.geometry.new_width >= 1 /\ out.geometry.new_width <= op.inp.width
        /\ out.geometry.new_height >= 1 /\ out.geometry.new_height <= op.inp.height
        /\ out.geometry.x >= 0 /\ out.geometry.y >= 0
        /\ out.geometry.x + out.geometry.new_width <= op.inp.width
        /\ out.geometry.y + out.geometry.new_height <= op.inp.height

\* a wide source on a tall target: fitted to the width and centred vertically
C17_Witness ==
    /\ op.name = "optimize_for_eink" /\ out.returned = "True"
    /\ op.inp.src_w = 4 /\ op.inp.src_h = 2 /\ op.inp.width = 2 /\ op.inp.height = 5
    /\ out.geometry.new_width = 2 /\ out.geometry.new_height = 1
    /\ out.geometry.x = 0 /\ out.geometry.y = 2

\* the distinct pixel values of the saved image
SavedValues == { out.saved.pixels[i] : i \in 1..Len(out.saved.pixels) }

\* C18: with dither enabled the saved image holds at most grayscale_levels
\* distinct pixel values, so at most 16 for grayscale_levels = 16
C18_AtMostLevelsValues ==
    (op.name = "optimize_for_eink" /\ out.returned = "True" /\ op.inp.dither) =>
        /\ Cardinality(SavedValues) <= op.inp.grayscale_levels
        /\ \A v \in SavedValues : v \in 0..255

\* a canvas of 20 distinct values reduced to exactly 16
C18_Witness ==
    /\ op.name = "optimize_for_eink" /\ out.returned = "True" /\ op.inp.dither
    /\ op.inp.grayscale_levels = 16
    /\ op.inp.content = "gradient" /\ op.inp.boost4 = 4
    /\ Cardinality({ Canvas("gradient", 5, 4)[i] : i \in 1..20 }) = 20
    /\ Cardinality(SavedValues) = 16

\* C19: optimize_for_eink never raises: when a step fails (open, convert,
\* resize, also for a scaled dimension of 0, paste, filter, enhance, quantize,
\* save) or PIL is missing it returns False with nothing saved, and it returns
\* True only with the output saved
C19_NeverRaises ==
    op.name = "optimize_for_eink" =>
        /\ out.returned \in {"True", "False"}
        /\ out.returned = "True" => out.saved # NoImage /\ out.failed = ""
        /\ (out.failed # "" \/ ~op.inp.has_pil) => out.returned = "False" /\ out.saved = NoImage

\* a 5 x 1 source on a 2 x 2 target scales to height 0: resize fails, False
C19_Witness ==
    /\ op.name = "optimize_for_eink"
    /\ op.inp.src_w = 5 /\ op.inp.src_h = 1 /\ op.inp.width = 2 /\ op.inp.height = 2
    /\ out.geometry.new_height = 0
    /\ out.failed = "resize"
    /\ out.returned = "False"

\* C27: a call that finds an empty collection returns None and leaves the
\* state file as it was (not created, not rewritten), so that the next call on
\* a non-empty collection proceeds from the record persisted before
C27_EmptyCollectionKeepsRecord ==
    [][/\ (call'.made /\ call'.files = <<>>) =>
              /\ stateFile' = stateFile
              /\ ret' = NoSelection
       /\ (SelectedStep /\ call.made /\ call.files = <<>>) =>
              mem' = Advance(LoadState(stateFile, call'.io), call'.rotation_interval,
                             Len(call'.files))]_vars

\* a call on a directory without images while the state file holds "2,2"
C27_Witness ==
    /\ call.made /\ call.files = <<>>
    /\ call.io.state_file /\ call.io.write = "ok"
    /\ ret = NoSelection
    /\ stateFile = [exists |-> TRUE, content |-> <<"2", ",", "2">>]

\* C28: the record a call persists is read back by the load step of the next
\* call as the same (index, count): it is never malformed, so it never takes
\* the reset path
C28_RecordRoundTrip ==
    (call.made /\ call.files # <<>> /\ call.io.state_file /\ call.io.write = "ok") =>
        /\ stateFile.exists
        /\ stateFile.content = FormatState(mem)
        /\ ~Malformed(stateFile.content)
        /\ ParseState(stateFile.content) = mem
        /\ LoadState(stateFile, [state_file |-> TRUE, read |-> "ok", write |-> "ok"]) = mem

\* a call that persisted a two-digit index, and the record reads back as it
C28_Witness ==
    /\ call.made /\ call.files # <<>> /\ call.io.state_file /\ call.io.write = "ok"
    /\ mem = [index |-> 12, count |-> 1]
    /\ stateFile.content = <<"1", "2", ",", "1">>
    /\ ParseState(stateFile.content) = [index |-> 12, count |-> 1]

----------------------------------------------------------------------------
(* Properties of repeated calls *)

\* C26: under repeated serial calls with n items, interval k >= 1 and a
\* working state file, the selected index advances by exactly 1 (mod n) on
\* every k-th call and is unchanged on the others, any n*k consecutive calls
\* select every item, and each item is selected infinitely often
C26_RoundRobin ==
    /\ [](LET n == Len(call.files)
              k == call.rotation_interval
          IN  call.made =>
                /\ \A i \in 1..(Len(hist) - 1) :
                       /\ (hist[i + 1].count = 0) <=> (hist[i].count = k - 1)
                       /\ hist[i + 1].count # 0 => /\ hist[i + 1].index = hist[i].index
                                                  /\ hist[i + 1].count = hist[i].count + 1
                       /\ hist[i + 1].count = 0 => hist[i + 1].index = (hist[i].index + 1) % n
                /\ Len(hist) = n * k =>
                       { hist[i].index : i \in 1..Len(hist) } = 0..(n - 1))
    /\ \A item \in 0..4 :
           []<>(call.made /\ (item < Len(call.files) => ret.index = item))

\* five items with interval 2: the last ten calls selected 0,0,1,1,...,4,4 in
\* some rotation and the selection has wrapped around to the first item
C26_Witness ==
    /\ call.made
    /\ Len(call.files) = 5 /\ call.rotation_interval = 2
    /\ Len(hist) = 10
    /\ hist[9].index = 4 /\ hist[10].index = 0
    /\ { hist[i].index : i \in 1..10 } = 0..4

----------------------------------------------------------------------------
(* Properties of concurrent invocations *)

BothDone == \A p \in Invocations : race.pc[p] = "done"

\* the record after one and after two invocations run one after the other
OnceAdvanced == Advance(ReadRecord(race.initial), race.rotation_interval, race.n)

TwiceAdvanced == Advance(OnceAdvanced, race.rotation_interval, race.n)

\* C20: two invocations that run one after the other never lose an increment:
\* the persisted record is the initial record advanced twice; two invocations
\* that interleave end with that record, or with the initial record advanced
\* once (a lost increment), or with the default (0,0) advanced once (a reset
\* after reading the truncated file)
C20_SerialKeepsBothIncrements ==
    BothDone =>
        /\ ~race.overlapped => ReadRecord(stateFile) = TwiceAdvanced
        /\ ReadRecord(stateFile) \in
               {TwiceAdvanced, OnceAdvanced,
                Advance(DefaultCursor, race.rotation_interval, race.n)}

\* an interleaving whose final record is the result of neither serial order:
\* the second invocation read the file the first had truncated, and the run
\* ends with (0,0) advanced once although the file held a later record
C20_Witness ==
    /\ BothDone
    /\ race.overlapped
    /\ ReadRecord(stateFile) # TwiceAdvanced
    /\ ReadRecord(stateFile) # OnceAdvanced
    /\ ReadRecord(stateFile) = Advance(DefaultCursor, race.rotation_interval, race.n)

====
